---- MODULE Spec2Model ----
(***************************************************************************)
(* TagZilla (glu/modules/tagzilla/tagzilla.py): the bin builder, the       *)
(* single-population greedy binner with its two bin sequences, the         *)
(* residual qualifier of tagzilla_single, the LD-pair scanner, the         *)
(* multi-population LD pairs (merge2, merge3, minld), the global           *)
(* multi-population binner, the tag selector, the launcher's handling of   *)
(* fatal errors, and the haplotype counts and LD estimate of two loci.     *)
(* Each component has its own variables and its own specification; the     *)
(* other components stay idle in it.  SpecBinned runs the binner on the    *)
(* bins of a table of distinct pairs over NumBinLoci loci.                 *)
(*                                                                         *)
(* Locus names are the integers 1..NumLoci; their order is the lexical     *)
(* order of the names.  MAFs and r-squared values are integers (MAF in     *)
(* units of 1/4, r2 and D' in tenths), so sums and comparisons are exact.  *)
(***************************************************************************)
EXTENDS Integers, Sequences, FiniteSets, TLC

\* ---- bounds ----
\* The loci are 1..NumLoci and the LD-pair stream holds at most MaxPairs pairs.
\* MaxInput bounds the size of the whole input: a pair of the stream counts 2,
\* a marked locus (obligate or excluded) counts 1.
NumLoci == 3
MaxPairs == 2
MaxInput == 5

Loci == 1..NumLoci
\* the MAFs of the loci alternate between 2 and 1, so that bins of one size
\* both tie and differ in their MAF sums
MafProfiles == {[l \in 1..NumLoci |-> 1 + (l % 2)]}
R2Values == {8, 9}

\* ---- Bin (class attributes) ----
INCLUDE_UNTYPED == -2
INCLUDE_TYPED == -1
NORMAL == 0
EXCLUDE == 2

VARIABLES
  pc,          \* "build" | "built" | "bin" | "done" | "raised"
  maf,         \* loci[lname].maf
  npairs,      \* number of LD pairs consumed by build_binsets so far
  binsets,     \* lname -> Bin, a record [set, maf, disposition, maxcovered]
  lddata,      \* <<lname1,lname2>> -> r2
  includes,    \* Includes: [typed, untyped]
  options,     \* [locipertag, loglocipertag, targetbins, targetloci]
  impl,        \* "naive" (NaiveBinSequence) | "fast" (FastBinSequence)
  pq,          \* FastBinSequence.pq: lname -> stored priority
  popped,      \* the tuples (ref_lname, largest, bins) returned by pop
  results,     \* the BinResults received by tagzilla_single, in order
  binned_loci, \* tagzilla_single's counter
  spc,         \* scan_ldpairs: "idle" | "scan" | "scandone"
  sloci,       \* scan_ldpairs: the locus list, records [name, location]
  sopt,        \* scan_ldpairs: [maxd, rthreshold, dthreshold]
  si, sj,      \* scan_ldpairs: the loop indices i and j (from 1)
  sld,         \* the estimates computed so far: <<i, j>> -> <<r2, dprime>>
  sout,        \* the tuples scan_ldpairs has yielded, in order
  mpc,         \* generate_ldpairs_multi: "idle" | "load" | "mscan" | "mscandone" | "merged"
  method,      \* options.multimethod
  mfiles,      \* the genotype file of each population: locus -> allele count, Absent
  minmaf,      \* options.maf (= file_options.maf), in minor alleles per population
  ths,         \* scan_ldpairs_multi: (dth, rth) of each population
  mmaxd,       \* maxd of the multi-population scan
  mpop,        \* the population whose file is loaded next
  multi_loci,  \* generate_ldpairs_multi: the locus list of each population loaded
  mloci,       \* scan_ldpairs_multi: list(merge_multi_loci(loci))
  mi, mj,      \* scan_ldpairs_multi: the loop indices i and j (from 1)
  mcur,        \* the per-population estimates of the pair processed last
  mout,        \* the tuples scan_ldpairs_multi has yielded, in order
  mscan,       \* the locus list handed to scan_ldpairs by merge2 / merge3
  gpc,         \* global mode: "idle" | "bin" | "collect" | "done" | "raised"
  gbinsets,    \* MultiBinSequence.binsets: per population, lname -> Bin
  glddata,     \* MultiBinSequence.lddata: per population, <<lname1,lname2>> -> r2
  gincludes,   \* Includes: [typed, untyped]
  gopt,        \* [locipertag, loglocipertag, targetbins, targetloci]
  gimpl,       \* "naive" (NaiveMultiBinSequence) | "fast" (FastMultiBinSequence)
  glnames,     \* MultiBinSequence.lnames: the loci with a bin at construction
  gorder,      \* the iteration order of the set self.lnames (naive)
  gpq,         \* FastMultiBinSequence.pq: lname -> stored priority
  gpopped,     \* the tuples (lname, results) yielded by binner_vector
  gk,          \* tagzilla_multi: the index of the next result to process
  gbinned,     \* tagzilla_multi: binned_loci of each population
  gout,        \* the BinResults of each bin as tagzilla_multi emits them
  tpc,         \* tag selection: "idle" | "emitted" | "selected"
  tbin,        \* the BinResult handed to TagSelector.select_tags
  tscores,     \* TagSelector.scores: lname -> design score
  tweights,    \* TagSelector.weights: the criteria (each of weight 2)
  lpc,         \* launcher: "idle" | "tagzilla" | ... | "raised" | "handled" | "exited"
  loptions,    \* the parsed command line
  lraised,     \* the message of the TagZillaError raised, "" if none
  lstderr,     \* what has been written to sys.stderr
  lstatus,     \* the exit status of the process: {} while it runs
  hpc,         \* LD of one pair of loci: "idle" | "count" | "estimate"
  hgenos,      \* the two genotype vectors
  hcounts,     \* count_haplotypes of (genos1, genos2) and of (genos2, genos1)
  hld,         \* the two calls of estimate_ld: their frames
  hout         \* scan_ldpairs' test of the two estimates: [opt, pairs], << >> before it

bvars == <<pc, maf, npairs, binsets, lddata, includes, options, impl,
           pq, popped, results, binned_loci>>
svars == <<spc, sloci, sopt, si, sj, sld, sout>>
mvars == <<mpc, method, mfiles, minmaf, ths, mmaxd, mpop, multi_loci, mloci,
           mi, mj, mcur, mout, mscan>>
\* the variables of the components added to the binner and the scanner
gvars == <<gpc, gbinsets, glddata, gincludes, gopt, gimpl, glnames, gorder, gpq, gpopped,
           gk, gbinned, gout>>
tvars == <<tpc, tbin, tscores, tweights>>
lvars == <<lpc, loptions, lraised, lstderr, lstatus>>
hvars == <<hpc, hgenos, hcounts, hld, hout>>
xvars == <<mvars, gvars, tvars, lvars, hvars>>
notmulti == <<bvars, svars, gvars, tvars, lvars, hvars>>
notglobal == <<bvars, svars, mvars, tvars, lvars, hvars>>
notselect == <<bvars, svars, mvars, gvars, lvars, hvars>>
notlaunch == <<bvars, svars, mvars, gvars, tvars, hvars>>
notld == <<bvars, svars, mvars, gvars, tvars, lvars>>
vars == <<bvars, svars, xvars>>

\* ---- small helpers ----
Max(a, b) == IF a >= b THEN a ELSE b
Min(a, b) == IF a <= b THEN a ELSE b

\* f without the key k
MapDel(f, k) == [x \in (DOMAIN f) \ {k} |-> f[x]]
\* f with f[k] = v (k may be new)
MapSet(f, k, v) == [x \in (DOMAIN f) \cup {k} |-> IF x = k THEN v ELSE f[x]]

RECURSIVE SumMaf(_, _)
SumMaf(m, S) ==
  IF S = {} THEN 0
  ELSE LET x == CHOOSE y \in S : TRUE IN m[x] + SumMaf(m, S \ {x})

\* ---- class Bin ----
\* Bin([lname], maf): maxcovered = max(None, len(self)) = len(self)
BinNew(lname, m) ==
  [set |-> {lname}, maf |-> m, disposition |-> NORMAL, maxcovered |-> 1]

\* (mutant) maxcovered is not raised when the bin grows
BinAdd_nomax(bin, lname, m) ==
  [bin EXCEPT !.set = bin.set \cup {lname}, !.maf = bin.maf + m]

\* Bin.add: the MAF is added whether or not lname was already a member
BinAdd(bin, lname, m) ==
  LET s == bin.set \cup {lname} IN
  [bin EXCEPT !.set = s,
              !.maxcovered = Max(bin.maxcovered, Cardinality(s)),
              !.maf = bin.maf + m]

\* Bin.remove (the caller guarantees membership)
BinRemove(bin, lname, m) ==
  [bin EXCEPT !.set = bin.set \ {lname}, !.maf = bin.maf - m]

\* (mutant) the member stays in the bin
BinDiscard_keep(bin, lname, m) == bin

\* Bin.discard
BinDiscard(bin, lname, m) ==
  IF lname \in bin.set
  THEN [bin EXCEPT !.set = bin.set \ {lname}, !.maf = bin.maf - m]
  ELSE bin

\* (mutant) the size enters the priority with the wrong sign
priority_smallest_first(bin) == <<bin.disposition, Cardinality(bin.set), -bin.maf>>

\* Bin.priority
priority(bin) == <<bin.disposition, -Cardinality(bin.set), -bin.maf>>

\* Python's tuple comparison on priorities
KeyLess(k1, k2) ==
  \/ k1[1] < k2[1]
  \/ k1[1] = k2[1] /\ k1[2] < k2[2]
  \/ k1[1] = k2[1] /\ k1[2] = k2[2] /\ k1[3] < k2[3]

KeyLeq(k1, k2) == k1 = k2 \/ KeyLess(k1, k2)

\* ---- Includes ----
Includes(typed, untyped) == [typed |-> typed \ untyped, untyped |-> untyped]

\* ---- build_binsets ----
\* the body of the loop over the LD-pair stream, for one pair
build_binsets_pair(bs, m, lname1, lname2) ==
  LET b1 == IF lname1 \in DOMAIN bs THEN bs ELSE MapSet(bs, lname1, BinNew(lname1, m[lname1]))
      b2 == IF lname2 \in DOMAIN b1 THEN b1 ELSE MapSet(b1, lname2, BinNew(lname2, m[lname2]))
      b3 == [b2 EXCEPT ![lname1] = BinAdd(b2[lname1], lname2, m[lname2])]
  IN  [b3 EXCEPT ![lname2] = BinAdd(b3[lname2], lname1, m[lname1])]

\* singletons for the loci that appeared in no pair
AddSingletons(bs, m) ==
  [l \in Loci |-> IF l \in DOMAIN bs THEN bs[l] ELSE BinNew(l, m[l])]

\* excludes and undesignable loci (design score below epsilon) become EXCLUDE
MarkExclude(bs, excl) ==
  [l \in DOMAIN bs |->
     IF l \in excl THEN [bs[l] EXCEPT !.disposition = EXCLUDE] ELSE bs[l]]

\* (mutant) the other untyped obligates are left in the obligate's bin
MarkUntyped_keep(bs, m, untyped) ==
  [l \in DOMAIN bs |->
     IF l \in untyped THEN [bs[l] EXCEPT !.disposition = INCLUDE_UNTYPED] ELSE bs[l]]

\* untyped obligates: INCLUDE_UNTYPED, and every other untyped obligate is
\* removed from the obligate's own bin
RECURSIVE RemoveAll(_, _, _)
RemoveAll(bin, S, m) ==
  IF S = {} THEN bin
  ELSE LET x == CHOOSE y \in S : TRUE
       IN RemoveAll(BinRemove(bin, x, m[x]), S \ {x}, m)

MarkUntyped(bs, m, untyped) ==
  [l \in DOMAIN bs |->
     IF l \in untyped
     THEN RemoveAll([bs[l] EXCEPT !.disposition = INCLUDE_UNTYPED],
                    (untyped \cap bs[l].set) \ {l}, m)
     ELSE bs[l]]

MarkTyped(bs, typed) ==
  [l \in DOMAIN bs |->
     IF l \in typed THEN [bs[l] EXCEPT !.disposition = INCLUDE_TYPED] ELSE bs[l]]

\* the part of build_binsets after the pair loop; excl is the exclude set
\* together with the loci whose design score is below epsilon (both get the
\* EXCLUDE disposition, in this order, before the obligates are marked)
build_binsets_finish(bs, m, inc, excl) ==
  MarkTyped(MarkUntyped(MarkExclude(AddSingletons(bs, m), excl), m, inc.untyped),
            inc.typed)

\* ---- get_tags_required_function ----
\* options.locipertag = 0 and options.loglocipertag = <<0, 1>> stand for "not
\* given"; a logarithm base B is the rational loglocipertag[1]/loglocipertag[2]
HasTagsRequired(opt) == opt.locipertag # 0 \/ opt.loglocipertag[1] # 0

\* int(ceil(log(x)/log(B))) for B = num/den > 1 and x >= 1: the least k with
\* (num/den)^k >= x
RECURSIVE CeilLog(_, _, _, _, _, _)
CeilLog(k, p, q, num, den, x) ==
  IF p >= x * q THEN k ELSE CeilLog(k + 1, p * num, q * den, num, den, x)

get_tags_required(opt, n) ==
  IF opt.locipertag # 0
  THEN Min((n \div opt.locipertag) + 1, n)
  ELSE CeilLog(0, 1, 1, opt.loglocipertag[1], opt.loglocipertag[2], n + 1)

\* (mutant) the dispositions are not compared
can_tag_superset_only(bin, reference) == reference.set \subseteq bin.set

\* ---- can_tag ----
can_tag(bin, reference) ==
  /\ bin.disposition # EXCLUDE \/ reference.disposition = EXCLUDE
  /\ reference.set \subseteq bin.set

\* ---- must_split_bin ----
must_split_bin(bin, bs, opt) ==
  IF ~HasTagsRequired(opt) THEN FALSE
  ELSE LET tags_required == get_tags_required(opt, Cardinality(bin.set))
           tags == {lname \in bin.set : can_tag(bs[lname], bin)}
       IN IF tags_required = 1 THEN FALSE
          ELSE Cardinality(tags) < tags_required /\ tags_required <= Cardinality(bin.set)

\* ---- NaiveBinSequence / FastBinSequence ----
\* The sequence's mutable state is threaded as a record [bs, pq, bins]: the
\* binsets, the queue (the empty function for NaiveBinSequence) and the
\* dictionary bins that pop fills.

\* FastBinSequence.__init__: pq[lname] = bin.priority() for every bin
InitPQ(im, bs) ==
  IF im = "fast" THEN [l \in DOMAIN bs |-> priority(bs[l])] ELSE << >>

\* peek: the set of loci peek may return.  The linear scan keeps the first
\* bin of the dictionary's iteration order that no later bin beats; the queue
\* returns an entry of minimal stored priority.  Neither order is fixed by
\* the code, so every minimal entry is a possible outcome.
peek(im, bs, q) ==
  IF im = "fast"
  THEN {l \in DOMAIN q : \A o \in DOMAIN q : ~KeyLess(q[o], q[l])}
  ELSE {l \in DOMAIN bs : \A o \in DOMAIN bs : ~KeyLess(priority(bs[o]), priority(bs[l]))}

\* (mutant) the bin is read but left in binsets
pop_bin_keep(im, st, lname) ==
  [st EXCEPT !.pq = IF im = "fast" THEN MapDel(st.pq, lname) ELSE st.pq]

\* pop_bin
pop_bin(im, st, lname) ==
  [st EXCEPT !.bs = MapDel(st.bs, lname),
             !.pq = IF im = "fast" THEN MapDel(st.pq, lname) ELSE st.pq]

\* (mutant) the queue entry is not refreshed
reduce_bin_stale(im, st, other_locus, taken_locus, m) ==
  [st EXCEPT !.bs = IF other_locus \in DOMAIN st.bs
                    THEN [st.bs EXCEPT ![other_locus] = BinDiscard(st.bs[other_locus], taken_locus, m)]
                    ELSE st.bs]

\* reduce_bin
reduce_bin(im, st, other_locus, taken_locus, m) ==
  LET bs1 == IF other_locus \in DOMAIN st.bs
             THEN [st.bs EXCEPT ![other_locus] = BinDiscard(st.bs[other_locus], taken_locus, m)]
             ELSE st.bs
  IN [st EXCEPT !.bs = bs1,
                !.pq = IF im = "fast" /\ other_locus \in DOMAIN bs1
                       THEN MapSet(st.pq, other_locus, priority(bs1[other_locus]))
                       ELSE st.pq]

\* lddata[lname1,lname2], looked up as split_bin does: (ref, lname) first,
\* then (lname, ref)
LdKey(ld, ref_lname, lname) ==
  IF <<ref_lname, lname>> \in DOMAIN ld THEN <<ref_lname, lname>> ELSE <<lname, ref_lname>>

\* (mutant) the r2 is compared before the coverage
LdLess_r2first(t1, t2) ==
  \/ t1[2] < t2[2]
  \/ t1[2] = t2[2] /\ t1[1] < t2[1]
  \/ t1[2] = t2[2] /\ t1[1] = t2[1] /\ t1[3] < t2[3]

\* Python's comparison of the tuples (-covered, r2, lname)
LdLess(t1, t2) ==
  \/ t1[1] < t2[1]
  \/ t1[1] = t2[1] /\ t1[2] < t2[2]
  \/ t1[1] = t2[1] /\ t1[2] = t2[2] /\ t1[3] < t2[3]

\* the list ld built by split_bin, as a set
SplitList(bs, ld, ref_lname, bin) ==
  {<<-(IF lname \in DOMAIN bs THEN Cardinality(bs[lname].set) ELSE 0),
     ld[LdKey(ld, ref_lname, lname)], lname>> : lname \in bin.set \ {ref_lname}}

\* ld[0] after ld.sort(): the member split_bin removes
SplitVictim(bs, ld, ref_lname, bin) ==
  LET L == SplitList(bs, ld, ref_lname, bin)
  IN (CHOOSE t \in L : \A u \in L : u = t \/ LdLess(t, u))[3]

\* split_bin raises KeyError when a member's pair is in lddata in neither order
SplitRaises(ld, ref_lname, bin) ==
  \E lname \in bin.set \ {ref_lname} : LdKey(ld, ref_lname, lname) \notin DOMAIN ld

\* (mutant) the reference stays in the bin of the removed member
split_bin_oneside(im, st, ld, m, ref_lname, bin) ==
  LET lname == SplitVictim(st.bs, ld, ref_lname, bin)
  IN reduce_bin(im, st, ref_lname, lname, m[lname])

\* split_bin
split_bin(im, st, ld, m, ref_lname, bin) ==
  LET lname == SplitVictim(st.bs, ld, ref_lname, bin)
  IN reduce_bin(im, reduce_bin(im, st, ref_lname, lname, m[lname]),
                lname, ref_lname, m[ref_lname])

\* pop, after the must-split loop: every member of largest is popped and
\* withdrawn from the bins of the loci outside largest
RECURSIVE ReduceAll(_, _, _, _, _)
ReduceAll(im, st, others, taken, m) ==
  IF others = {} THEN st
  ELSE LET lname2 == CHOOSE y \in others : TRUE
       IN ReduceAll(im, reduce_bin(im, st, lname2, taken, m), others \ {lname2}, taken, m)

RECURSIVE Withdraw(_, _, _, _, _)
Withdraw(im, st, todo, largest, m) ==
  IF todo = {} THEN st
  ELSE LET lname == CHOOSE y \in todo : TRUE
           bin == st.bs[lname]
           st0 == pop_bin(im, st, lname)
           st1 == [st0 EXCEPT !.bins = MapSet(st0.bins, lname, bin)]
       IN Withdraw(im, ReduceAll(im, st1, bin.set \ largest.set, lname, m[lname]),
                   todo \ {lname}, largest, m)

\* ---- pair_generator ----
\* the iteration orders of a set
Orders(S) ==
  {s \in [1..Cardinality(S) -> S] : \A i, j \in 1..Cardinality(S) : i # j => s[i] # s[j]}

pair_generator(bins) ==
  {<<bins[p[1]], bins[p[2]]>> :
     p \in {q \in (1..Len(bins)) \X (1..Len(bins)) : q[2] < q[1]}}

\* ---- build_result ----
ResultDisposition(d) ==
  IF d = INCLUDE_UNTYPED THEN "obligate-untyped"
  ELSE IF d = INCLUDE_TYPED THEN "obligate-typed"
  ELSE IF d = EXCLUDE THEN "obligate-exclude"
  ELSE "maximal-bin"

ResultTags(largest, bins) == {l \in DOMAIN bins : can_tag(bins[l], largest)}

RECURSIVE MaxCovered(_, _, _)
MaxCovered(c, tags, bins) ==
  IF tags = {} THEN c
  ELSE LET l == CHOOSE y \in tags : TRUE
       IN MaxCovered(Max(c, bins[l].maxcovered), tags \ {l}, bins)

\* the keys of lddata popped for the pairs of largest, taken in the given order
PoppedKeys(ld, order) ==
  {k \in DOMAIN ld :
     \E p \in pair_generator(order) :
        \/ k = p
        \/ p \notin DOMAIN ld /\ k = <<p[2], p[1]>>}

build_result(lname, largest, bins, ld, inc, opt, order) ==
  LET tags == ResultTags(largest, bins)
      obligate == largest.disposition \in {INCLUDE_TYPED, INCLUDE_UNTYPED}
  IN [binnum |-> 0,
      tags |-> tags,
      others |-> (DOMAIN bins) \ tags,
      tags_required |-> IF HasTagsRequired(opt)
                        THEN get_tags_required(opt, Cardinality(largest.set)) ELSE 1,
      average_maf |-> <<largest.maf, Cardinality(largest.set)>>,
      include |-> IF obligate THEN lname ELSE 0,
      include_typed |-> inc.typed \cap largest.set,
      ld |-> {<<t, t, 10>> : t \in tags} \cup
             {<<k[1], k[2], ld[k]>> : k \in PoppedKeys(ld, order)},
      disposition |-> ResultDisposition(largest.disposition),
      maxcovered |-> IF obligate THEN largest.maxcovered
                     ELSE MaxCovered(largest.maxcovered, tags, bins),
      recommended_tags |-> {}]

\* the assertion of build_result
ResultAssert(result) == Cardinality(result.tags) >= result.tags_required

\* (mutant) the loci cap is reached at target_loci, not beyond it
bin_qualifier_geq(bin, binned, opt) ==
  IF /\ \/ opt.targetbins # 0 /\ bin.binnum > opt.targetbins
        \/ opt.targetloci # 0 /\ binned >= opt.targetloci
     /\ bin.disposition # "obligate-exclude"
  THEN "residual"
  ELSE bin.disposition

\* ---- bin_qualifier ----
\* the disposition bin_qualifier leaves on the bin
bin_qualifier(bin, binned, opt) ==
  IF /\ \/ opt.targetbins # 0 /\ bin.binnum > opt.targetbins
        \/ opt.targetloci # 0 /\ binned > opt.targetloci
     /\ bin.disposition # "obligate-exclude"
  THEN "residual"
  ELSE bin.disposition

\* the state before build_binsets is called
BinnerInit ==
  /\ pc = "build"
  /\ maf \in MafProfiles
  /\ npairs = 0
  /\ binsets = << >>
  /\ lddata = << >>
  /\ includes = Includes({}, {})
  /\ options = [locipertag |-> 0, loglocipertag |-> <<0, 1>>, targetbins |-> 0, targetloci |-> 0]
  /\ impl = "naive"
  /\ pq = << >>
  /\ popped = << >>
  /\ results = << >>
  /\ binned_loci = 0

\* no scan is under way
ScanIdle ==
  /\ spc = "idle"
  /\ sloci = << >>
  /\ sopt = [maxd |-> 0, rthreshold |-> 0, dthreshold |-> 0]
  /\ si = 1
  /\ sj = 2
  /\ sld = << >>
  /\ sout = << >>

\* no multi-population run is under way
MultiIdle ==
  /\ mpc = "idle"
  /\ method = "minld"
  /\ mfiles = << >>
  /\ minmaf = 0
  /\ ths = << >>
  /\ mmaxd = 0
  /\ mpop = 1
  /\ multi_loci = << >>
  /\ mloci = << >>
  /\ mi = 1
  /\ mj = 2
  /\ mcur = << >>
  /\ mout = << >>
  /\ mscan = << >>

\* no global run is under way
GlobalIdle ==
  /\ gpc = "idle"
  /\ gbinsets = << >>
  /\ glddata = << >>
  /\ gincludes = Includes({}, {})
  /\ gopt = [locipertag |-> 0, loglocipertag |-> <<0, 1>>, targetbins |-> 0, targetloci |-> 0]
  /\ gimpl = "naive"
  /\ glnames = {}
  /\ gorder = << >>
  /\ gpq = << >>
  /\ gpopped = << >>
  /\ gk = 1
  /\ gbinned = << >>
  /\ gout = << >>

\* no bin is with the tag selector
SelectIdle ==
  /\ tpc = "idle"
  /\ tbin = << >>
  /\ tscores = << >>
  /\ tweights = {}

\* no program run is under way
LaunchIdle ==
  /\ lpc = "idle"
  /\ loptions = << >>
  /\ lraised = ""
  /\ lstderr = << >>
  /\ lstatus = {}

\* no LD estimation is under way
LdIdle ==
  /\ hpc = "idle"
  /\ hgenos = << >>
  /\ hcounts = << >>
  /\ hld = << >>
  /\ hout = << >>

OthersIdle == MultiIdle /\ GlobalIdle /\ SelectIdle /\ LaunchIdle /\ LdIdle

Init == BinnerInit /\ ScanIdle /\ OthersIdle

\* build_binsets consumes one more pair of the LD-pair stream
AddPair ==
  /\ pc = "build"
  /\ npairs < MaxPairs
  /\ \E lname1 \in Loci, lname2 \in Loci, r2 \in R2Values :
       /\ lname1 # lname2
       /\ lddata' = MapSet(lddata, <<lname1, lname2>>, r2)
       /\ binsets' = build_binsets_pair(binsets, maf, lname1, lname2)
  /\ npairs' = npairs + 1
  /\ UNCHANGED <<pc, maf, includes, options, impl, pq, popped, results, binned_loci>>
  /\ UNCHANGED <<svars, xvars>>

\* the LD-pair stream is exhausted: build_binsets runs to its return
FinishBuild ==
  /\ pc = "build"
  /\ \E typed \in SUBSET Loci, untyped \in SUBSET Loci, excl \in SUBSET Loci :
       /\ 2 * npairs + Cardinality(typed \cup untyped \cup excl) <= MaxInput
       /\ includes' = Includes(typed, untyped)
       /\ binsets' = build_binsets_finish(binsets, maf, Includes(typed, untyped), excl)
  /\ pc' = "built"
  /\ UNCHANGED <<maf, npairs, lddata, options, impl, pq, popped, results, binned_loci>>
  /\ UNCHANGED <<svars, xvars>>

\* binner: BinSequence(loci, binsets, lddata, get_tags_required) is built
BinnerStart(policies, targets, impls) ==
  /\ pc = "built"
  /\ \E p \in policies, t \in targets, im \in impls :
       /\ options' = [locipertag |-> p.locipertag, loglocipertag |-> p.loglocipertag,
                      targetbins |-> t[1], targetloci |-> t[2]]
       /\ impl' = im
       /\ pq' = InitPQ(im, binsets)
  /\ pc' = "bin"
  /\ UNCHANGED <<maf, npairs, binsets, lddata, includes, popped, results, binned_loci>>
  /\ UNCHANGED <<svars, xvars>>

\* pop, one turn of the must-split loop: the peeked bin must split
Split ==
  /\ pc = "bin"
  /\ DOMAIN binsets # {}
  /\ \E ref_lname \in peek(impl, binsets, pq) :
       LET largest == binsets[ref_lname] IN
       /\ must_split_bin(largest, binsets, options)
       /\ IF SplitRaises(lddata, ref_lname, largest)
          THEN /\ pc' = "raised"
               /\ UNCHANGED <<binsets, pq>>
          ELSE LET st == split_bin(impl, [bs |-> binsets, pq |-> pq, bins |-> << >>],
                                   lddata, maf, ref_lname, largest)
               IN /\ binsets' = st.bs
                  /\ pq' = st.pq
                  /\ pc' = pc
  /\ UNCHANGED <<maf, npairs, lddata, includes, options, impl, popped, results, binned_loci>>
  /\ UNCHANGED <<svars, xvars>>

\* pop returns (ref_lname, largest, bins); binner yields build_result(...);
\* tagzilla_single numbers and qualifies the bin
Emit ==
  /\ pc = "bin"
  /\ DOMAIN binsets # {}
  /\ \E ref_lname \in peek(impl, binsets, pq) :
       LET largest == binsets[ref_lname] IN
       /\ ~must_split_bin(largest, binsets, options)
       /\ IF ~(largest.set \subseteq DOMAIN binsets)
          THEN \* pop_bin raises KeyError
               /\ pc' = "raised"
               /\ UNCHANGED <<binsets, pq, popped, results, lddata, binned_loci>>
          ELSE LET st == Withdraw(impl, [bs |-> binsets, pq |-> pq, bins |-> << >>],
                                  largest.set, largest, maf)
                   bins == st.bins
               IN /\ binsets' = st.bs
                  /\ pq' = st.pq
                  /\ popped' = Append(popped, [ref_lname |-> ref_lname, largest |-> largest, bins |-> bins])
                  /\ \E order \in Orders(largest.set) :
                       LET r0 == build_result(ref_lname, largest, bins, lddata, includes, options, order)
                           r1 == [r0 EXCEPT !.binnum = Len(results) + 1]
                           r2 == [r1 EXCEPT !.disposition = bin_qualifier(r1, binned_loci, options)]
                       IN IF ~ResultAssert(r0)
                          THEN /\ pc' = "raised"
                               /\ UNCHANGED <<results, lddata, binned_loci>>
                          ELSE /\ pc' = pc
                               /\ results' = Append(results, r2)
                               /\ lddata' = [k \in (DOMAIN lddata) \ PoppedKeys(lddata, order) |-> lddata[k]]
                               /\ binned_loci' = binned_loci + Cardinality(r2.tags) + Cardinality(r2.others)
  /\ UNCHANGED <<maf, npairs, includes, options, impl>>
  /\ UNCHANGED <<svars, xvars>>

\* pop raises StopIteration: no candidate bin remains
Stop ==
  /\ pc = "bin"
  /\ DOMAIN binsets = {}
  /\ pc' = "done"
  /\ UNCHANGED <<maf, npairs, binsets, lddata, includes, options, impl, pq, popped, results, binned_loci>>
  /\ UNCHANGED <<svars, xvars>>

\* ---- configurations ----
NoPolicy == [locipertag |-> 0, loglocipertag |-> <<0, 1>>]
Policies ==
  {NoPolicy}
  \cup {[locipertag |-> L, loglocipertag |-> <<0, 1>>] : L \in {1, 2}}
  \cup {[locipertag |-> 0, loglocipertag |-> B] : B \in {<<3, 2>>, <<3, 1>>}}
NoTargets == {<<0, 0>>}
Impls == {"naive", "fast"}

\* configurations with a cap on the bins or on the loci (or both)
MaxTarget == 2
TargetPolicies == {[locipertag |-> 2, loglocipertag |-> <<0, 1>>]}
Targets ==
  {<<t, 0>> : t \in 1..MaxTarget} \cup {<<0, t>> : t \in 1..MaxTarget}
  \cup {<<t, t>> : t \in 1..MaxTarget}

Next ==
  \/ AddPair
  \/ FinishBuild
  \/ BinnerStart(Policies, NoTargets, Impls)
  \/ Split
  \/ Emit
  \/ Stop

Spec == Init /\ [][Next]_vars

\* tagzilla_single with --targetbins / --targetloci
NextTarget ==
  \/ AddPair
  \/ FinishBuild
  \/ BinnerStart(TargetPolicies, Targets, {"fast"})
  \/ Split
  \/ Emit
  \/ Stop

SpecTarget == Init /\ [][NextTarget]_vars

\* ---- the binner on a table of distinct pairs ----
\* The binner is started on the binsets that build_binsets makes of a stream
\* in which every pair of loci occurs at most once: NumBinLoci loci, at most
\* MaxBinPairs pairs, at most two excluded loci.
NumBinLoci == 4
MaxBinPairs == 3
BinLoci == 1..NumBinLoci
BinMaf == [l \in BinLoci |-> 1 + (l % 2)]
PairTables ==
  UNION {[P -> R2Values] :
           P \in {Q \in SUBSET {q \in BinLoci \X BinLoci : q[1] < q[2]} :
                    Cardinality(Q) <= MaxBinPairs}}
BinExcludes == {S \in SUBSET BinLoci : Cardinality(S) <= 2}

RECURSIVE PairLoop(_, _, _)
\* the pair loop of build_binsets over the pairs P
PairLoop(bs, m, P) ==
  IF P = {} THEN bs
  ELSE LET q == CHOOSE x \in P : TRUE
       IN PairLoop(build_binsets_pair(bs, m, q[1], q[2]), m, P \ {q})

\* build_binsets(loci, ldpairs, includes, exclude, designscores) without obligates
build_binsets_table(ld, m, excl) ==
  LET b == PairLoop(<< >>, m, DOMAIN ld)
  IN MarkExclude([l \in DOMAIN m |-> IF l \in DOMAIN b THEN b[l] ELSE BinNew(l, m[l])], excl)

BinnedInit ==
  /\ pc = "bin"
  /\ maf = BinMaf
  /\ lddata \in PairTables
  /\ npairs = Cardinality(DOMAIN lddata)
  /\ includes = Includes({}, {})
  /\ \E excl \in BinExcludes : binsets = build_binsets_table(lddata, maf, excl)
  /\ \E p \in Policies :
       options = [locipertag |-> p.locipertag, loglocipertag |-> p.loglocipertag,
                  targetbins |-> 0, targetloci |-> 0]
  /\ impl \in Impls
  /\ pq = InitPQ(impl, binsets)
  /\ popped = << >>
  /\ results = << >>
  /\ binned_loci = 0

InitBinned == BinnedInit /\ ScanIdle /\ OthersIdle

NextBinned ==
  \/ Split
  \/ Emit
  \/ Stop

SpecBinned == InitBinned /\ [][NextBinned]_vars

\* ---- scan_ldpairs ----
\* The locations are 0..MaxLocation.  The LD estimate of a pair (the result of
\* count_haplotypes and estimate_ld on the two genotype vectors) is an input
\* of the scan, drawn when the pair is visited: r2 and D' in tenths.
MaxLocation == 2
LdValues == {<<9, 9>>, <<9, -9>>, <<9, 7>>, <<7, 9>>}
ScanOptions ==
  {[maxd |-> d, rthreshold |-> 8, dthreshold |-> t] : d \in {0, 1}, t \in {0, 8}}

\* locus lists sorted ascending by location; the names run against the
\* positions, so that a name is never the index of its locus
SortedLoci ==
  {l \in UNION {[1..n -> [name : Loci, location : 0..MaxLocation]] : n \in 0..NumLoci} :
     /\ \A i \in DOMAIN l : l[i].name = NumLoci + 1 - i
     /\ \A i \in DOMAIN l : i > 1 => l[i - 1].location <= l[i].location}

Abs(x) == IF x < 0 THEN -x ELSE x

\* (mutant) the inner loop ends one locus early
TooFar_geq(location1, location2, maxd) == location2 - location1 >= maxd

\* the test that ends the inner loop
TooFar(location1, location2, maxd) == location2 - location1 > maxd

\* the test that lets a pair through
MeetsThresholds(r2, dprime, opt) ==
  r2 >= opt.rthreshold /\ Abs(dprime) >= opt.dthreshold

\* scan_ldpairs is called on a sorted locus list
ScanInit ==
  /\ spc = "scan"
  /\ sloci \in SortedLoci
  /\ sopt \in ScanOptions
  /\ si = 1
  /\ sj = 2
  /\ sld = << >>
  /\ sout = << >>

\* no binner is running
BinnerIdle ==
  /\ pc = "idle"
  /\ maf = [l \in Loci |-> 1]
  /\ npairs = 0
  /\ binsets = << >>
  /\ lddata = << >>
  /\ includes = Includes({}, {})
  /\ options = [locipertag |-> 0, loglocipertag |-> <<0, 1>>, targetbins |-> 0, targetloci |-> 0]
  /\ impl = "naive"
  /\ pq = << >>
  /\ popped = << >>
  /\ results = << >>
  /\ binned_loci = 0

InitScan == BinnerIdle /\ ScanInit /\ OthersIdle

\* the body of the inner loop for a pair within maxd: the LD is estimated and
\* the pair is yielded if it meets both thresholds
ScanPair ==
  /\ spc = "scan"
  /\ si <= Len(sloci)
  /\ sj <= Len(sloci)
  /\ ~TooFar(sloci[si].location, sloci[sj].location, sopt.maxd)
  /\ \E ld \in LdValues :
       /\ sld' = MapSet(sld, <<si, sj>>, ld)
       /\ sout' = IF MeetsThresholds(ld[1], ld[2], sopt)
                  THEN Append(sout, <<sloci[si].name, sloci[sj].name, ld[1], ld[2]>>)
                  ELSE sout
  /\ sj' = sj + 1
  /\ UNCHANGED <<spc, sloci, sopt, si>>
  /\ UNCHANGED <<bvars, xvars>>

\* the inner loop breaks: locus j is more than maxd beyond locus i
ScanBreak ==
  /\ spc = "scan"
  /\ si <= Len(sloci)
  /\ sj <= Len(sloci)
  /\ TooFar(sloci[si].location, sloci[sj].location, sopt.maxd)
  /\ si' = si + 1
  /\ sj' = si + 2
  /\ UNCHANGED <<spc, sloci, sopt, sld, sout>>
  /\ UNCHANGED <<bvars, xvars>>

\* the inner loop is exhausted
ScanNext ==
  /\ spc = "scan"
  /\ si <= Len(sloci)
  /\ sj > Len(sloci)
  /\ si' = si + 1
  /\ sj' = si + 2
  /\ UNCHANGED <<spc, sloci, sopt, sld, sout>>
  /\ UNCHANGED <<bvars, xvars>>

\* the outer loop is exhausted: the generator returns
ScanDone ==
  /\ spc = "scan"
  /\ si > Len(sloci)
  /\ spc' = "scandone"
  /\ UNCHANGED <<sloci, sopt, si, sj, sld, sout>>
  /\ UNCHANGED <<bvars, xvars>>

NextScan == ScanPair \/ ScanBreak \/ ScanNext \/ ScanDone

SpecScan == InitScan /\ [][NextScan]_vars

\* ---- generate_ldpairs_multi: minld, merge2, merge3 ----
\* NumPops populations, each with a genotype file over the loci
\* 1..NumMultiLoci; locus l lies at location l - 1.  A locus of a file carries
\* its minor-allele count in that population's sample (0: monomorphic).
NumPops == 2
NumMultiLoci == 2

Pops == 1..NumPops
MultiLoci == 1..NumMultiLoci
AlleleCounts == {0, 2}
Methods == {"minld", "merge2", "merge3"}
MinMafs == {0, 1}
Thresholds == {[dth |-> 0, rth |-> 8], [dth |-> 8, rth |-> 8]}
MultiMaxd == {0, 1}
\* a file lists a subset of the loci
GenotypeFiles == UNION {[S -> AlleleCounts] : S \in SUBSET MultiLoci}

\* Locus(name, location, genos): genos is summarised by the populations that
\* contribute genotypes (n, 0 for an empty list) and the minor-allele count
MultiLocus(lname, count, n) ==
  [name |-> lname, location |-> lname - 1, count |-> count, n |-> n]

RECURSIVE LociOf(_, _)
\* load_genotypes + materialize_loci: the loci of a file sorted by (location, name)
LociOf(file, l) ==
  IF l > NumMultiLoci THEN << >>
  ELSE (IF l \in DOMAIN file THEN <<MultiLocus(l, file[l], 1)>> ELSE << >>)
       \o LociOf(file, l + 1)

\* locus.maf >= minmaf, the MAF being count / (alleles per population * n)
PassesMaf(locus, t) == locus.count >= t * locus.n

\* filter_loci (the MAF filter stands for the MAF, completion and HWP filters)
filter_loci(loci, t) == SelectSeq(loci, LAMBDA locus : PassesMaf(locus, t))

LocusKeyLeq(a, b) ==
  a.location < b.location \/ (a.location = b.location /\ a.name <= b.name)

RECURSIVE merge_multi_loci(_)
merge_multi_loci(lists) ==
  IF \A p \in DOMAIN lists : lists[p] = << >> THEN << >>
  ELSE
    LET heads == {Head(lists[p]) : p \in {q \in DOMAIN lists : lists[q] # << >>}}
        m == CHOOSE h \in heads : \A g \in heads : LocusKeyLeq(h, g)
        hit(p) == /\ lists[p] # << >>
                  /\ Head(lists[p]).name = m.name
                  /\ Head(lists[p]).location = m.location
        res == [p \in DOMAIN lists |->
                 IF hit(p) THEN Head(lists[p])
                 ELSE [name |-> m.name, location |-> m.location, count |-> 0, n |-> 0]]
        rest == [p \in DOMAIN lists |-> IF hit(p) THEN Tail(lists[p]) ELSE lists[p]]
    IN <<res>> \o merge_multi_loci(rest)

RECURSIVE SumField(_, _, _)
SumField(locus, p, f) ==
  IF p > Len(locus) THEN 0
  ELSE (IF f = "n" THEN locus[p].n ELSE locus[p].count) + SumField(locus, p + 1, f)

\* merge_loci: one Locus per aligned row, its genotypes concatenated, the
\* populations without the locus filled with missing genotypes
merge_loci(lists) ==
  LET rows == merge_multi_loci(lists) IN
  [k \in 1..Len(rows) |->
     [name |-> rows[k][1].name, location |-> rows[k][1].location,
      count |-> SumField(rows[k], 1, "count"), n |-> SumField(rows[k], 1, "n")]]

\* estimate_ld(*count_haplotypes(..)): 0, 0 on a monomorphic marker, else the
\* estimate est of that population
EstimateLd(locus1, locus2, est) ==
  IF locus1.count = 0 \/ locus2.count = 0 THEN <<0, 0>> ELSE est

PopFails_r2only(ld, th) == ld[1] < th.rth

\* r2_pop < rth or abs(dprime_pop) < dth
PopFails(ld, th) == ld[1] < th.rth \/ Abs(ld[2]) < th.dth

RECURSIVE ScanPops(_, _, _, _, _)
\* the loop over the populations for one pair, from population p on, with the
\* running minima acc = [r2, dprime]; the loop breaks at the first failure
ScanPops(p, row1, row2, ld, acc) ==
  IF p > Len(row1) THEN [r2 |-> acc.r2, dprime |-> acc.dprime, good |-> TRUE]
  ELSE IF row1[p].n = 0 \/ row2[p].n = 0
    THEN ScanPops(p + 1, row1, row2, ld, acc)
  ELSE
    LET r2 == Min(acc.r2, ld[p][1])
        dprime == Min(acc.dprime, ld[p][2])
    IN IF PopFails(ld[p], ths[p])
       THEN [r2 |-> r2, dprime |-> dprime, good |-> FALSE]
       ELSE ScanPops(p + 1, row1, row2, ld, [r2 |-> r2, dprime |-> dprime])

\* a multi-population run over one region starts
MultiInit ==
  /\ mpc = "load"
  /\ method \in Methods
  /\ mfiles \in [Pops -> GenotypeFiles]
  /\ minmaf \in MinMafs
  /\ ths \in [Pops -> Thresholds]
  /\ mmaxd \in MultiMaxd
  /\ mpop = 1
  /\ multi_loci = << >>
  /\ mloci = << >>
  /\ mi = 1
  /\ mj = 2
  /\ mcur = << >>
  /\ mout = << >>
  /\ mscan = << >>

InitMulti == BinnerIdle /\ ScanIdle /\ MultiInit /\ GlobalIdle /\ SelectIdle /\ LaunchIdle /\ LdIdle

\* one file is loaded; it is filtered here unless the method is merge2
LoadPop ==
  /\ mpc = "load"
  /\ mpop <= NumPops
  /\ LET loci == LociOf(mfiles[mpop], 1) IN
     multi_loci' = Append(multi_loci,
                          IF method # "merge2" THEN filter_loci(loci, minmaf) ELSE loci)
  /\ mpop' = mpop + 1
  /\ UNCHANGED <<mpc, method, mfiles, minmaf, ths, mmaxd, mloci, mi, mj, mcur, mout, mscan>>
  /\ UNCHANGED notmulti

\* method minld: scan_ldpairs_multi is entered
StartMinld ==
  /\ mpc = "load"
  /\ mpop > NumPops
  /\ method = "minld"
  /\ mpc' = "mscan"
  /\ mloci' = merge_multi_loci(multi_loci)
  /\ mi' = 1
  /\ mj' = 2
  /\ UNCHANGED <<method, mfiles, minmaf, ths, mmaxd, mpop, multi_loci, mcur, mout, mscan>>
  /\ UNCHANGED notmulti

\* methods merge2 and merge3: the populations are merged, merge2 filters the
\* merged loci, and the result is handed to scan_ldpairs
MergeLoci ==
  /\ mpc = "load"
  /\ mpop > NumPops
  /\ method \in {"merge2", "merge3"}
  /\ mpc' = "merged"
  /\ LET loci == merge_loci(multi_loci) IN
     mscan' = IF method = "merge2" THEN filter_loci(loci, minmaf) ELSE loci
  /\ UNCHANGED <<method, mfiles, minmaf, ths, mmaxd, mpop, multi_loci, mloci, mi, mj, mcur, mout>>
  /\ UNCHANGED notmulti

\* the body of the inner loop for a pair within maxd
MultiPair ==
  /\ mpc = "mscan"
  /\ mi <= Len(mloci)
  /\ mj <= Len(mloci)
  /\ ~TooFar(mloci[mi][1].location, mloci[mj][1].location, mmaxd)
  /\ \E est \in [Pops -> LdValues] :
       LET ld == [p \in Pops |-> EstimateLd(mloci[mi][p], mloci[mj][p], est[p])]
           res == ScanPops(1, mloci[mi], mloci[mj], ld, [r2 |-> 10, dprime |-> 10])
       IN /\ est = [p \in Pops |->
                      IF mloci[mi][p].n = 0 \/ mloci[mj][p].n = 0
                         \/ mloci[mi][p].count = 0 \/ mloci[mj][p].count = 0
                      THEN <<9, 9>> ELSE est[p]]
          /\ mcur' = ld
          /\ mout' = IF res.r2 < 10 /\ res.good
                     THEN Append(mout, <<mloci[mi][1].name, mloci[mj][1].name,
                                         res.r2, res.dprime>>)
                     ELSE mout
  /\ mj' = mj + 1
  /\ UNCHANGED <<mpc, method, mfiles, minmaf, ths, mmaxd, mpop, multi_loci, mloci, mi, mscan>>
  /\ UNCHANGED notmulti

\* the inner loop breaks
MultiBreak ==
  /\ mpc = "mscan"
  /\ mi <= Len(mloci)
  /\ mj <= Len(mloci)
  /\ TooFar(mloci[mi][1].location, mloci[mj][1].location, mmaxd)
  /\ mi' = mi + 1
  /\ mj' = mi + 2
  /\ UNCHANGED <<mpc, method, mfiles, minmaf, ths, mmaxd, mpop, multi_loci, mloci, mcur, mout, mscan>>
  /\ UNCHANGED notmulti

\* the inner loop is exhausted
MultiNext ==
  /\ mpc = "mscan"
  /\ mi <= Len(mloci)
  /\ mj > Len(mloci)
  /\ mi' = mi + 1
  /\ mj' = mi + 2
  /\ UNCHANGED <<mpc, method, mfiles, minmaf, ths, mmaxd, mpop, multi_loci, mloci, mcur, mout, mscan>>
  /\ UNCHANGED notmulti

\* the outer loop is exhausted: the generator returns
MultiDone ==
  /\ mpc = "mscan"
  /\ mi > Len(mloci)
  /\ mpc' = "mscandone"
  /\ UNCHANGED <<method, mfiles, minmaf, ths, mmaxd, mpop, multi_loci, mloci, mi, mj, mcur, mout, mscan>>
  /\ UNCHANGED notmulti

NextMulti ==
  \/ LoadPop
  \/ StartMinld
  \/ MergeLoci
  \/ MultiPair
  \/ MultiBreak
  \/ MultiNext
  \/ MultiDone

SpecMulti == InitMulti /\ [][NextMulti]_vars

\* ---- global mode: MultiBinSequence, binner_vector, tagzilla_multi ----
\* One build_binsets per population over the loci of that population's
\* locus map; the LD pairs of a population are listed once each, r2 = 9.
GlobalMaf == CHOOSE m \in MafProfiles : TRUE
GlobalPolicies == {NoPolicy, [locipertag |-> 2, loglocipertag |-> <<0, 1>>]}

\* the inputs of one population: its loci and its LD pairs
PopInputs ==
  UNION {{[present |-> S, pairs |-> P] :
            P \in SUBSET {q \in S \X S : q[1] < q[2]}} : S \in SUBSET Loci}

RECURSIVE AddPairs(_, _, _)
\* the pair loop of build_binsets over the pairs P
AddPairs(bs, ld, P) ==
  IF P = {} THEN [bs |-> bs, ld |-> ld]
  ELSE LET q == CHOOSE x \in P : \A y \in P : x[1] < y[1] \/ (x[1] = y[1] /\ x[2] <= y[2])
       IN AddPairs(build_binsets_pair(bs, GlobalMaf, q[1], q[2]), MapSet(ld, q, 9), P \ {q})

\* build_binsets(pop_locusmap, [pop_ldpairs], includes, exclude, designscores)
build_binsets_pop(input, inc, excl) ==
  LET b == AddPairs(<< >>, << >>, input.pairs)
      all == [l \in input.present |->
                IF l \in DOMAIN b.bs THEN b.bs[l] ELSE BinNew(l, GlobalMaf[l])]
  IN [bs |-> MarkTyped(MarkUntyped(MarkExclude(all, excl), GlobalMaf, inc.untyped), inc.typed),
      ld |-> b.ld]

\* the populations in which lname has a candidate bin
PopsWith(bss, lname) == {p \in 1..Len(bss) : lname \in DOMAIN bss[p]}

RECURSIVE SumOver(_, _)
SumOver(f, S) ==
  IF S = {} THEN 0 ELSE LET x == CHOOSE y \in S : TRUE IN f[x] + SumOver(f, S \ {x})

\* NaiveMultiBinSequence.priority; << >> stands for None
multi_priority(bss, lname) ==
  LET ps == PopsWith(bss, lname)
      disposition == CHOOSE d \in {bss[p][lname].disposition : p \in ps} :
                       \A p \in ps : d <= bss[p][lname].disposition
      len == [p \in ps |-> Cardinality(bss[p][lname].set)]
      mafs == [p \in ps |-> bss[p][lname].maf]
      double == IF \E p \in ps : len[p] = 1 THEN 2 ELSE 1
  IN IF ps = {} THEN << >>
     ELSE <<disposition, -(Cardinality(ps) * double), -(SumOver(len, ps) * double),
            -SumOver(mafs, ps)>>

\* Python's comparison of two priority tuples
MultiKeyLess(k1, k2) ==
  \/ k1[1] < k2[1]
  \/ k1[1] = k2[1] /\ k1[2] < k2[2]
  \/ k1[1] = k2[1] /\ k1[2] = k2[2] /\ k1[3] < k2[3]
  \/ k1[1] = k2[1] /\ k1[2] = k2[2] /\ k1[3] = k2[3] /\ k1[4] < k2[4]

\* NaiveMultiBinSequence.peek over the iteration order of self.lnames: the
\* first locus with a priority is kept; a later locus with a smaller priority
\* makes the assignment `lname = current_lname` raise NameError (0 here);
\* otherwise the loop variable lname, left at the last locus, is returned
naive_multi_peek(bss, order) ==
  LET n == Len(order)
      has(i) == multi_priority(bss, order[i]) # << >>
      first == CHOOSE i \in 1..n : has(i) /\ \A j \in 1..(i - 1) : ~has(j)
  IN IF \E j \in (first + 1)..n :
          has(j) /\ MultiKeyLess(multi_priority(bss, order[j]), multi_priority(bss, order[first]))
     THEN 0
     ELSE order[n]

\* peek: the loci peek may return (0: NameError)
multi_peek(im, bss, q, order) ==
  IF im = "fast"
  THEN {l \in DOMAIN q : \A o \in DOMAIN q : ~MultiKeyLess(q[o], q[l])}
  ELSE {naive_multi_peek(bss, order)}

RECURSIVE update_bins(_, _, _, _)
\* update_bins (a no-op in NaiveMultiBinSequence)
update_bins(im, bss, q, lnames) ==
  IF im # "fast" \/ lnames = {} THEN q
  ELSE LET lname == CHOOSE y \in lnames : TRUE
           p == multi_priority(bss, lname)
       IN update_bins(im, bss,
                      IF p # << >> THEN MapSet(q, lname, p) ELSE MapDel(q, lname),
                      lnames \ {lname})

\* the populations in which the bin of ref_lname must split
MustSplitPops(bss, ref_lname, opt) ==
  {p \in PopsWith(bss, ref_lname) : must_split_bin(bss[p][ref_lname], bss[p], opt)}

\* pop, after the must-split loop, in one population: (binsets, used_bins)
WithdrawPop(bs, ref_lname) ==
  IF ref_lname \in DOMAIN bs
  THEN Withdraw("naive", [bs |-> bs, pq |-> << >>, bins |-> << >>],
                bs[ref_lname].set, bs[ref_lname], GlobalMaf)
  ELSE [bs |-> bs, pq |-> << >>, bins |-> << >>]

\* tag_intersection: the set starts from the first result itself, that is from
\* chain(tags, others) of the first population with a bin, and is intersected
\* with the tags of the remaining results
tag_intersection(res) ==
  LET first == CHOOSE p \in DOMAIN res : \A q \in DOMAIN res : p <= q
  IN {l \in res[first].tags \cup res[first].others :
        \A p \in (DOMAIN res) \ {first} : l \in res[p].tags}

\* subset_tags(result, tags)
subset_tags(result, tags) ==
  [result EXCEPT !.tags = tags, !.others = result.others \cup (result.tags \ tags)]

\* MultiBinSequence(loci, binsets, lddata, get_tags_required) has been
\* constructed on the binsets of the populations
GlobalInit ==
  /\ gpc = "bin"
  /\ \E inputs \in [Pops -> PopInputs], marked \in SUBSET Loci, kind \in {"excl", "untyped", "typed"} :
       /\ Cardinality(marked) <= 1
       /\ marked = {} => kind = "excl"
       /\ gincludes = Includes(IF kind = "typed" THEN marked ELSE {},
                               IF kind = "untyped" THEN marked ELSE {})
       /\ LET built == [p \in Pops |->
                          build_binsets_pop(inputs[p], gincludes,
                                            IF kind = "excl" THEN marked ELSE {})]
          IN /\ gbinsets = [p \in Pops |-> built[p].bs]
             /\ glddata = [p \in Pops |-> built[p].ld]
  /\ \E p \in GlobalPolicies :
       gopt = [locipertag |-> p.locipertag, loglocipertag |-> p.loglocipertag,
               targetbins |-> 0, targetloci |-> 0]
  /\ gimpl \in Impls
  /\ glnames = UNION {DOMAIN gbinsets[p] : p \in Pops}
  /\ gorder \in (IF gimpl = "naive" THEN Orders(glnames) ELSE {<< >>})
  /\ gpq = IF gimpl = "fast"
           THEN [l \in glnames |-> multi_priority(gbinsets, l)] ELSE << >>
  /\ gpopped = << >>
  /\ gk = 1
  /\ gbinned = [p \in Pops |-> 0]
  /\ gout = << >>

InitGlobal == BinnerIdle /\ ScanIdle /\ MultiIdle /\ GlobalInit /\ SelectIdle /\ LaunchIdle /\ LdIdle

AnyBinsets == \E p \in 1..Len(gbinsets) : DOMAIN gbinsets[p] # {}

\* NaiveMultiBinSequence.peek raises NameError
GlobalNameError ==
  /\ gpc = "bin"
  /\ AnyBinsets
  /\ 0 \in multi_peek(gimpl, gbinsets, gpq, gorder)
  /\ gpc' = "raised"
  /\ UNCHANGED <<gbinsets, glddata, gincludes, gopt, gimpl, glnames, gorder, gpq, gpopped, gk, gbinned, gout>>
  /\ UNCHANGED notglobal

\* pop, the must-split loop: the bin of the peeked locus must split in some
\* population; split_bin indexes self.lddata, the list of the populations'
\* LD tables, with the pair of names and raises TypeError
GlobalSplit ==
  /\ gpc = "bin"
  /\ AnyBinsets
  /\ \E ref_lname \in multi_peek(gimpl, gbinsets, gpq, gorder) \ {0} :
       MustSplitPops(gbinsets, ref_lname, gopt) # {}
  /\ gpc' = "raised"
  /\ UNCHANGED <<gbinsets, glddata, gincludes, gopt, gimpl, glnames, gorder, gpq, gpopped, gk, gbinned, gout>>
  /\ UNCHANGED notglobal

\* pop returns (ref_lname, largest, bins) and binner_vector yields
\* (lname, results), one build_result per population with a bin
GlobalEmit ==
  /\ gpc = "bin"
  /\ AnyBinsets
  /\ Len(gpopped) <= NumLoci
  /\ \E ref_lname \in multi_peek(gimpl, gbinsets, gpq, gorder) \ {0} :
       LET with == PopsWith(gbinsets, ref_lname)
           st == [p \in Pops |-> WithdrawPop(gbinsets[p], ref_lname)]
           bss == [p \in Pops |-> st[p].bs]
           touched == UNION {gbinsets[p][ref_lname].set : p \in with}
       IN /\ MustSplitPops(gbinsets, ref_lname, gopt) = {}
          /\ \E order \in [with -> UNION {Orders(gbinsets[p][ref_lname].set) : p \in with}] :
               /\ \A p \in with : order[p] \in Orders(gbinsets[p][ref_lname].set)
               /\ LET rs == [p \in with |->
                                    build_result(ref_lname, gbinsets[p][ref_lname], st[p].bins,
                                                 glddata[p], gincludes, gopt, order[p])]
                  IN IF \E p \in with : ~ResultAssert(rs[p])
                     THEN /\ gpc' = "raised"
                          /\ UNCHANGED <<gbinsets, glddata, gpq, gpopped>>
                     ELSE /\ gpc' = gpc
                          /\ gbinsets' = bss
                          /\ gpq' = update_bins(gimpl, bss, gpq, touched)
                          /\ glddata' = [p \in Pops |->
                                           IF p \in with
                                           THEN [k \in (DOMAIN glddata[p]) \ PoppedKeys(glddata[p], order[p])
                                                   |-> glddata[p][k]]
                                           ELSE glddata[p]]
                          /\ gpopped' = Append(gpopped, [lname |-> ref_lname, results |-> rs])
  /\ UNCHANGED <<gincludes, gopt, gimpl, glnames, gorder, gk, gbinned, gout>>
  /\ UNCHANGED notglobal

\* pop raises StopIteration; tagzilla_multi has the whole result set
GlobalStop ==
  /\ gpc = "bin"
  /\ ~AnyBinsets
  /\ gpc' = "collect"
  /\ UNCHANGED <<gbinsets, glddata, gincludes, gopt, gimpl, glnames, gorder, gpq, gpopped, gk, gbinned, gout>>
  /\ UNCHANGED notglobal

\* tagzilla_multi, the body of the loop over the result set
Intersect ==
  /\ gpc = "collect"
  /\ gk <= Len(gpopped)
  /\ LET res == gpopped[gk].results IN
     IF DOMAIN res = {}
     THEN \* tag_intersection: ires.next() raises StopIteration
          /\ gpc' = "raised"
          /\ UNCHANGED <<gk, gbinned, gout>>
     ELSE LET tags == tag_intersection(res) IN
          \E recommended \in tags :
            LET final == [p \in DOMAIN res |->
                            LET b0 == [subset_tags(res[p], tags) EXCEPT !.binnum = gk]
                                b1 == [b0 EXCEPT !.disposition = bin_qualifier(b0, gbinned[p], gopt)]
                            IN [b1 EXCEPT !.recommended_tags = {recommended}]]
            IN /\ gout' = Append(gout, final)
               /\ gbinned' = [p \in Pops |->
                                IF p \in DOMAIN res
                                THEN gbinned[p] + Cardinality(final[p].tags)
                                                + Cardinality(final[p].others)
                                ELSE gbinned[p]]
               /\ gk' = gk + 1
               /\ gpc' = gpc
  /\ UNCHANGED <<gbinsets, glddata, gincludes, gopt, gimpl, glnames, gorder, gpq, gpopped>>
  /\ UNCHANGED notglobal

\* the loop over the result set is exhausted
GlobalDone ==
  /\ gpc = "collect"
  /\ gk > Len(gpopped)
  /\ gpc' = "done"
  /\ UNCHANGED <<gbinsets, glddata, gincludes, gopt, gimpl, glnames, gorder, gpq, gpopped, gk, gbinned, gout>>
  /\ UNCHANGED notglobal

NextGlobal ==
  \/ GlobalNameError
  \/ GlobalSplit
  \/ GlobalEmit
  \/ GlobalStop
  \/ Intersect
  \/ GlobalDone

SpecGlobal == InitGlobal /\ [][NextGlobal]_vars

\* ---- TagSelector ----
\* A BinResult over the loci 1..n, n <= NumTagLoci, as build_result leaves it:
\* its tags cover every member, so bin.ld holds r2 for every pair with a tag.
NumTagLoci == 5

\* r2 of the pairs of a bin, in tenths: a bin in uniform LD, or one whose
\* pairs alternate between 8 and 9
LdProfiles == {[q \in (1..NumTagLoci) \X (1..NumTagLoci) |-> 9],
               [q \in (1..NumTagLoci) \X (1..NumTagLoci) |-> 8 + ((q[1] + q[2]) % 2)]}

\* self.scores: none, a score for every locus, or scores for loci 1 and 2 only
DesignScores ==
  {<< >>} \cup {[l \in 1..NumTagLoci |-> (l + k) % 3] : k \in {0, 1}}
          \cup {[l \in {1, 2} |-> l]}

\* self.weights: the criteria, each with the default weight 2
TagCriteria == {{}, {"maxsnp"}, {"avgtag"}, {"maxsnp", "avgsnp", "maxtag"}}

RECURSIVE Ascending(_, _)
\* the members of S in ascending order, from l on
Ascending(S, l) ==
  IF l > NumTagLoci THEN << >>
  ELSE (IF l \in S THEN <<l>> ELSE << >>) \o Ascending(S, l + 1)

Range(s) == {s[i] : i \in 1..Len(s)}

\* the BinResults handed to select_tags
EmittedBins ==
  {[tags |-> Ascending(T, 1), others |-> (1..n) \ T, tags_required |-> k,
    include |-> inc, disposition |-> d,
    ld |-> {<<q[1], q[2], r[q]>> : q \in {x \in (1..n) \X (1..n) :
                                            x[1] < x[2] /\ (x[1] \in T \/ x[2] \in T)}},
    recommended_tags |-> << >>] :
     n \in 1..NumTagLoci, T \in SUBSET (1..NumTagLoci), k \in 1..NumTagLoci,
     inc \in 0..NumTagLoci, d \in {"maximal-bin", "obligate-exclude", "obligate-typed",
                                   "obligate-untyped"},
     r \in LdProfiles}

\* the bins build_result can produce: the tags are members, there are enough
\* of them, tags_required follows no policy or locipertag = 2, and include is
\* the reference of an obligate bin
WellFormedBin(bin) ==
  LET T == Range(bin.tags)
      n == Cardinality(T \cup bin.others)
  IN /\ T # {}
     /\ T \cup bin.others = 1..n
     /\ bin.tags_required \in {1, Min((n \div 2) + 1, n)}
     /\ Len(bin.tags) >= bin.tags_required
     /\ bin.include # 0 <=> bin.disposition \in {"obligate-typed", "obligate-untyped"}
     /\ bin.include # 0 => bin.include \in T

\* build_weights(bin, method, weight): the dictionary w as the set of its
\* items (tag, statistic); a tag without a counted pair has no item
CriterionStats(bin, criterion) ==
  LET T == Range(bin.tags)
      partners(tag) == {e \in bin.ld : (e[1] = tag \/ e[2] = tag)
                                       /\ (criterion \in {"maxtag", "avgtag"} =>
                                             (IF e[1] = tag THEN e[2] ELSE e[1]) \notin T)}
      least(P) == CHOOSE v \in {e[3] : e \in P} : \A e \in P : v <= e[3]
      total(P) == SumOver([e \in P |-> e[3]], P)
  IN {<<tag, IF criterion \in {"maxsnp", "maxtag"}
             THEN least(partners(tag)) ELSE total(partners(tag))>> :
        tag \in {t \in T : partners(t) # {}}}

\* the tags build_weights down-weights by 1/weight: those not tied to the maximum
DownWeighted(bin, criterion) ==
  LET w == CriterionStats(bin, criterion)
  IN {x[1] : x \in {y \in w : \E z \in w : y[2] < z[2]}}

\* the list scores of select_tags as a set: (score * weight, tag) for every
\* tag, times 2^(number of criteria), every criterion that down-weights a tag
\* halving it
RankKeys(bin, scores, criteria) ==
  LET allscores == IF bin.disposition = "obligate-exclude" THEN << >> ELSE scores
      down == {<<m, t>> : m \in criteria, t \in Range(bin.tags)}
                \cap UNION {{<<m, t>> : t \in DownWeighted(bin, m)} : m \in criteria}
      score(tag) == IF tag \in DOMAIN allscores THEN allscores[tag]
                    ELSE (IF allscores = << >> THEN 1 ELSE 0)
  IN {<<score(tag) * (2 ^ (Cardinality(criteria)
                           - Cardinality({m \in criteria : <<m, tag>> \in down}))), tag>> :
        tag \in Range(bin.tags)}

RECURSIVE Ranked(_)
\* scores.sort(reverse=True), then the tags of the sorted pairs
Ranked(S) ==
  IF S = {} THEN << >>
  ELSE LET top == CHOOSE p \in S :
                    \A q \in S : q[1] < p[1] \/ (q[1] = p[1] /\ q[2] <= p[2])
       IN <<top[2]>> \o Ranked(S \ {top})

Take(s, k) == SubSeq(s, 1, Min(k, Len(s)))

\* (mutant) the obligate include is not forced into the recommendation
Recommend_head(tags, tags_required, include) == Take(tags, tags_required)

\* bin.tags[:tags_required], with the obligate include put first when absent
Recommend(tags, tags_required, include) ==
  LET head == Take(tags, tags_required)
  IN IF include # 0 /\ include \notin Range(head)
     THEN <<include>> \o Take(head, tags_required - 1)
     ELSE head

\* (mutant) a sole tag is not recommended
SoleTag_none(bin) == bin

\* len(bin.tags) == 1: recommended_tags = list(bin.tags)[:1]
SoleTag(bin) == [bin EXCEPT !.recommended_tags = Take(bin.tags, 1)]

\* TagSelector.select_tags
select_tags(bin, scores, criteria) ==
  IF criteria = {} /\ scores = << >> THEN bin
  ELSE IF criteria = {} /\ bin.disposition = "obligate-exclude" THEN bin
  ELSE IF Len(bin.tags) = 1 THEN SoleTag(bin)
  ELSE LET tags == Ranked(RankKeys(bin, scores, criteria))
       IN [bin EXCEPT !.tags = tags,
                      !.recommended_tags = Recommend(tags, bin.tags_required, bin.include)]

\* a bin has been emitted and is about to be handed to the tag selector
SelectInit ==
  /\ tpc = "emitted"
  /\ tbin \in {bin \in EmittedBins : WellFormedBin(bin)}
  /\ tscores \in DesignScores
  /\ tweights \in TagCriteria

InitSelect == BinnerIdle /\ ScanIdle /\ MultiIdle /\ GlobalIdle /\ SelectInit /\ LaunchIdle /\ LdIdle

\* tagselector.select_tags(bin)
SelectTags ==
  /\ tpc = "emitted"
  /\ tpc' = "selected"
  /\ tbin' = select_tags(tbin, tscores, tweights)
  /\ UNCHANGED <<tscores, tweights>>
  /\ UNCHANGED notselect

NextSelect == SelectTags

SpecSelect == InitSelect /\ [][NextSelect]_vars

\* ---- launcher, tagzilla: the fatal input errors ----
\* The command line as far as the fatal checks read it: the number of
\* populations, --multimethod, which of the four outputs go to standard
\* output, and whether -f/--format and -R/--range are well formed.
MULTI_METHODS == {"merge2", "merge3", "minld", "global"}
CommandLines ==
  [pops : {1, 2},
   multimethod : {"", "global", "minld", "bogus"},
   stdout : SUBSET {"outfile", "locusinfo", "bininfo", "sumfile"},
   format_known : BOOLEAN,
   range_valid : BOOLEAN]

\* launcher has parsed the command line and written 'Analysis start'
LaunchInit ==
  /\ lpc = "tagzilla"
  /\ loptions \in CommandLines
  /\ lraised = ""
  /\ lstderr = <<"Analysis start">>
  /\ lstatus = {}

InitLaunch ==
  BinnerIdle /\ ScanIdle /\ MultiIdle /\ GlobalIdle /\ SelectIdle /\ LaunchInit /\ LdIdle

\* raise TagZillaError(message)
Raise(message) ==
  /\ lpc' = "raised"
  /\ lraised' = message
  /\ UNCHANGED <<loptions, lstderr, lstatus>>

\* tagzilla: the multi-population method is checked, then the analysis runs
Dispatch ==
  /\ lpc = "tagzilla"
  /\ IF loptions.pops > 1 /\ loptions.multimethod = ""
     THEN Raise("ERROR: Multipopulation analysis requires specification of both -M/--multipopulation and --multimethod")
     ELSE IF loptions.pops > 1 /\ loptions.multimethod \notin MULTI_METHODS
     THEN Raise("ERROR: Unsupported multipopulation method (--multimethod) chosen")
     ELSE /\ lpc' = "build_output"
          /\ UNCHANGED <<loptions, lraised, lstderr, lstatus>>
  /\ UNCHANGED notlaunch

\* build_output
BuildOutput ==
  /\ lpc = "build_output"
  /\ IF Cardinality(loptions.stdout) > 1
     THEN Raise("ERROR: More than one output file directed to standard out.")
     ELSE /\ lpc' = "load_genotypes"
          /\ UNCHANGED <<loptions, lraised, lstderr, lstatus>>
  /\ UNCHANGED notlaunch

\* load_genotypes
LoadGenotypes ==
  /\ lpc = "load_genotypes"
  /\ IF ~loptions.format_known
     THEN Raise("ERROR: Unknown genotype/ld data format specified")
     ELSE /\ lpc' = "filter_loci"
          /\ UNCHANGED <<loptions, lraised, lstderr, lstatus>>
  /\ UNCHANGED notlaunch

\* filter_loci_by_range
FilterRange ==
  /\ lpc = "filter_loci"
  /\ IF ~loptions.range_valid
     THEN Raise("ERROR: Invalid genomic range")
     ELSE /\ lpc' = "returned"
          /\ UNCHANGED <<loptions, lraised, lstderr, lstatus>>
  /\ UNCHANGED notlaunch

\* launcher, except TagZillaError: the message is written to sys.stderr
HandleError ==
  /\ lpc = "raised"
  /\ lpc' = "handled"
  /\ lstderr' = lstderr \o <<lraised, "Analysis aborted due to reported error">>
  /\ UNCHANGED <<loptions, lraised, lstatus>>
  /\ UNCHANGED notlaunch

\* launcher, else: the analysis returned
Completed ==
  /\ lpc = "returned"
  /\ lpc' = "handled"
  /\ lstderr' = lstderr \o <<"Analysis completed successfully", "CPU time">>
  /\ UNCHANGED <<loptions, lraised, lstatus>>
  /\ UNCHANGED notlaunch

\* launcher returns, main returns and the interpreter exits: no path calls
\* sys.exit or re-raises, so the exit status is 0
Exit ==
  /\ lpc = "handled"
  /\ lpc' = "exited"
  /\ lstatus' = {0}
  /\ UNCHANGED <<loptions, lraised, lstderr>>
  /\ UNCHANGED notlaunch

NextLaunch ==
  \/ Dispatch
  \/ BuildOutput
  \/ LoadGenotypes
  \/ FilterRange
  \/ HandleError
  \/ Completed
  \/ Exit

SpecLaunch == InitLaunch /\ [][NextLaunch]_vars

\* ---- count_haplotypes, estimate_ld ----
\* A genotype is a pair of allele characters; the genotype vectors of the two
\* loci hold NumGenos samples.  MaxPasses stands for the 100 passes of the
\* EM loop (xrange(100)), and floats are binary floating-point numbers m * 2^e with a
\* significand of Prec bits, rounded to nearest, ties to even.
NumGenos == 3
MaxPasses == 3
Prec == 10

\* ord() of the characters that occur ("nul" is '\0')
Ord(ch) ==
  CASE ch = "nul" -> 0
    [] ch = " "   -> 32
    [] ch = "A"   -> 65
    [] ch = "B"   -> 66
MissingGenotype == <<" ", " ">>
Genotypes == {<<"A", "A">>, <<"A", "B">>, <<"B", "B">>, <<"B", " ">>, MissingGenotype}
GenotypeVectors == [1..NumGenos -> Genotypes]

\* min(g)+max(g)
SortedGenotype(g) == IF Ord(g[1]) <= Ord(g[2]) THEN g ELSE <<g[2], g[1]>>

\* count_diplotypes: the triples (g1, g2, n)
count_diplotypes(genos1, genos2) ==
  LET typed == {i \in 1..Len(genos1) :
                  genos1[i] # MissingGenotype /\ genos2[i] # MissingGenotype}
      key(i) == <<SortedGenotype(genos1[i]), SortedGenotype(genos2[i])>>
  IN  {<<key(i)[1], key(i)[2], Cardinality({j \in typed : key(j) = key(i)})>> : i \in typed}

\* find_hetz, for at most two alleles
find_hetz(alleles) ==
  LET typed == alleles \ {" "}
  IN  IF typed = {} THEN <<"nul", "nul">>
      ELSE LET lo == CHOOSE x \in typed : \A y \in typed : Ord(x) <= Ord(y)
               hi == CHOOSE x \in typed : \A y \in typed : Ord(y) <= Ord(x)
           IN  IF lo = hi THEN <<lo, "nul">> ELSE <<lo, hi>>

\* find_heterozygotes
find_heterozygotes(diplo_counts) ==
  <<find_hetz(UNION {{t[1][1], t[1][2]} : t \in diplo_counts}),
    find_hetz(UNION {{t[2][1], t[2][2]} : t \in diplo_counts})>>

\* the body of the loop of slow_count_haplotypes: what the diplotype t adds to x
HaplotypeClasses(t, het1, het2) ==
  IF <<t[1], t[2]>> = <<het1, het2>> THEN <<0, 0, 0, 0, t[3]>>
  ELSE
    LET g1 == IF " " \in {t[1][1], t[1][2]} /\ t[1][2] # het1[2]
              THEN <<t[1][2], t[1][1]>> ELSE t[1]
        g2 == IF " " \in {t[2][1], t[2][2]} /\ t[2][2] # het2[2]
              THEN <<t[2][2], t[2][1]>> ELSE t[2]
        n  == IF " " \notin {g1[1], g1[2], g2[1], g2[2]} /\ g1 # het1 /\ g2 # het2
              THEN 2 * t[3] ELSE t[3]
        x(a, b) == IF <<g1[a], g2[b]>> = <<het1[a], het2[b]>> THEN n ELSE 0
    IN  <<x(1, 1), x(1, 2), x(2, 1), x(2, 2), 0>>

RECURSIVE SumClasses(_, _, _)
SumClasses(S, het1, het2) ==
  IF S = {} THEN <<0, 0, 0, 0, 0>>
  ELSE LET t == CHOOSE y \in S : TRUE
           x == HaplotypeClasses(t, het1, het2)
           r == SumClasses(S \ {t}, het1, het2)
       IN  [i \in 1..5 |-> x[i] + r[i]]

\* slow_count_haplotypes: (c11, c12, c21, c22, dh)
slow_count_haplotypes(genos1, genos2) ==
  LET diplo_counts == count_diplotypes(genos1, genos2)
      het == find_heterozygotes(diplo_counts)
  IN  SumClasses(diplo_counts, het[1], het[2])

\* floating point: the float nearest to n * 2^e, for an integer n >= 0
RECURSIVE BitLen(_)
BitLen(n) == IF n = 0 THEN 0 ELSE 1 + BitLen(n \div 2)
FloatZero == [m |-> 0, e |-> 0]
Round(n, e) ==
  IF n = 0 THEN FloatZero
  ELSE LET s == BitLen(n) - Prec
       IN  IF s <= 0 THEN [m |-> n * 2^(0 - s), e |-> e + s]
           ELSE LET q == n \div 2^s
                    r == n % 2^s
                    half == 2^(s - 1)
                    m1 == IF r > half \/ (r = half /\ q % 2 = 1) THEN q + 1 ELSE q
                IN  IF m1 = 2^Prec THEN [m |-> 2^(Prec - 1), e |-> e + s + 1]
                    ELSE [m |-> m1, e |-> e + s]
FloatNeg(x) == [m |-> 0 - x.m, e |-> x.e]
Signed(negative, x) == IF negative THEN FloatNeg(x) ELSE x
\* float(k) of an integer k >= 0
float(k) == Round(k, 0)
\* x * y
fmul(x, y) == Signed((x.m < 0) # (y.m < 0), Round(Abs(x.m) * Abs(y.m), x.e + y.e))
\* x / y: the quotient to Prec+2 bits and a sticky bit for the remainder
fdiv(x, y) ==
  LET num == Abs(x.m) * 2^(Prec + 2)
      q == num \div Abs(y.m)
      n == IF num % Abs(y.m) # 0 /\ q % 2 = 0 THEN q + 1 ELSE q
  IN  Signed((x.m < 0) # (y.m < 0), Round(n, x.e - y.e - (Prec + 2)))
\* x + y
fadd(x, y) ==
  IF x.m = 0 THEN y
  ELSE IF y.m = 0 THEN x
  ELSE LET hi == IF x.e >= y.e THEN x ELSE y
           lo == IF x.e >= y.e THEN y ELSE x
           n == hi.m * 2^(hi.e - lo.e) + lo.m
       IN  IF hi.e - lo.e > Prec + 2 THEN hi
           ELSE Signed(n < 0, Round(Abs(n), lo.e))
fsub(x, y) == fadd(x, FloatNeg(y))
fless(x, y) == fsub(x, y).m < 0
\* Python's max(x, y) and min(x, y)
fmax(x, y) == IF fless(x, y) THEN y ELSE x
fmin(x, y) == IF fless(y, x) THEN y ELSE x
FloatOne == float(1)
\* epsilon = 10e-10
epsilon == fdiv(FloatOne, float(1000000000))

\* c11 + c12 + c21 + c22 + 2*dh
TotalHaplotypes(c) == c[1] + c[2] + c[3] + c[4] + 2 * c[5]

\* slow_estimate_ld, statement by statement.  s is the frame of one call:
\* its position (stage) and its local variables p, q, (p11, p12, p21, p22) as
\* est, the est of the pass before as old, a, the pass number, and the
\* returned (r2, dprime) as ld.
EstimateFrame ==
  [stage |-> "start", p |-> FloatZero, q |-> FloatZero, est |-> << >>, old |-> << >>,
   a |-> FloatZero, pass |-> 0, ld |-> << >>]

\* (mutant) the bail-out only when no haplotype is informative
initial_estimate_none(s, c) ==
  IF c[5] = 0 /\ {c[1] + c[2], c[3] + c[4], c[1] + c[3], c[2] + c[4]} = {0}
  THEN [s EXCEPT !.stage = "done", !.ld = <<FloatZero, FloatZero>>]
  ELSE [s EXCEPT !.stage = "frequencies",
                 !.p = fdiv(float(c[1] + c[2] + c[5]), float(TotalHaplotypes(c))),
                 !.q = fdiv(float(c[1] + c[3] + c[5]), float(TotalHaplotypes(c)))]

\* the bail-out on monomorphic markers, and the initial estimate of p and q
initial_estimate(s, c) ==
  IF c[5] = 0 /\ 0 \in {c[1] + c[2], c[3] + c[4], c[1] + c[3], c[2] + c[4]}
  THEN [s EXCEPT !.stage = "done", !.ld = <<FloatZero, FloatZero>>]
  ELSE [s EXCEPT !.stage = "frequencies",
                 !.p = fdiv(float(c[1] + c[2] + c[5]), float(TotalHaplotypes(c))),
                 !.q = fdiv(float(c[1] + c[3] + c[5]), float(TotalHaplotypes(c)))]

\* p11 = p*q, p12 = p*(1-q), p21 = (1-p)*q, p22 = (1-p)*(1-q)
initial_frequencies(s) ==
  [s EXCEPT !.stage = "force", !.pass = 1,
            !.est = <<fmul(s.p, s.q),
                      fmul(s.p, fsub(FloatOne, s.q)),
                      fmul(fsub(FloatOne, s.p), s.q),
                      fmul(fsub(FloatOne, s.p), fsub(FloatOne, s.q))>>]

\* p11 = max(epsilon, p11), ...
Forced(est) ==
  <<fmax(epsilon, est[1]), fmax(epsilon, est[2]), fmax(epsilon, est[3]), fmax(epsilon, est[4])>>

\* the head of a pass: the estimates are forced away from the boundaries, a is
\* computed, and the loop breaks if the log-likelihood moved by less than
\* TOLERANCE.  The logarithms are not computed: the loop breaks for certain
\* when the forced estimates are those of the pass before (the same
\* log-likelihood), otherwise when `settles` says so, and never in the first
\* pass (oldloglike = -999999999).
force_away(s, forced, settles) ==
  [s EXCEPT !.est = forced,
            !.a = fadd(fmul(forced[1], forced[4]), fmul(forced[2], forced[3])),
            !.stage = IF s.pass >= 2 /\ (settles \/ forced = s.old)
                      THEN "final" ELSE "step"]

\* nx1 = dh*p11*p22/a, nx2 = dh*p12*p21/a
Nx1(s, c) == fdiv(fmul(fmul(float(c[5]), s.est[1]), s.est[4]), s.a)
Nx2(s, c) == fdiv(fmul(fmul(float(c[5]), s.est[2]), s.est[3]), s.a)

\* the rest of a pass: p11 = (c11+nx1)/n, ...; the loop ends after MaxPasses
em_step(s, c, nx1, nx2) ==
  [s EXCEPT !.old = s.est,
            !.est = <<fdiv(fadd(float(c[1]), nx1), float(TotalHaplotypes(c))),
                      fdiv(fadd(float(c[2]), nx2), float(TotalHaplotypes(c))),
                      fdiv(fadd(float(c[3]), nx2), float(TotalHaplotypes(c))),
                      fdiv(fadd(float(c[4]), nx1), float(TotalHaplotypes(c)))>>,
            !.pass = s.pass + 1,
            !.stage = IF s.pass = MaxPasses THEN "final" ELSE "force"]

\* d = p11*p22 - p12*p21
Disequilibrium(s) == fsub(fmul(s.est[1], s.est[4]), fmul(s.est[2], s.est[3]))
\* dmax, by the sign of d
Dmax(s, d) ==
  IF d.m > 0
  THEN fmin(fmul(s.p, fsub(FloatOne, s.q)), fmul(fsub(FloatOne, s.p), s.q))
  ELSE FloatNeg(fmin(fmul(s.p, s.q), fmul(fsub(FloatOne, s.p), fsub(FloatOne, s.q))))
\* dprime = d/dmax, r2 = d*d/(p*(1-p)*q*(1-q))
ld_ratios(s, d, dmax) ==
  [s EXCEPT !.stage = "done",
            !.ld = <<fdiv(fmul(d, d),
                          fmul(fmul(fmul(s.p, fsub(FloatOne, s.p)), s.q), fsub(FloatOne, s.q))),
                     fdiv(d, dmax)>>]

\* the LD of the two loci is estimated in both orders, (genos1, genos2) as
\* order 1 and (genos2, genos1) as order 2, statement by statement
LdInit ==
  /\ hpc = "count"
  /\ hgenos \in GenotypeVectors \X GenotypeVectors
  /\ hcounts = << >>
  /\ hld = << >>
  /\ hout = << >>

InitLd ==
  BinnerIdle /\ ScanIdle /\ MultiIdle /\ GlobalIdle /\ SelectIdle /\ LaunchIdle /\ LdInit

\* count_haplotypes(genos1, genos2) and count_haplotypes(genos2, genos1)
CountHaplotypes ==
  /\ hpc = "count"
  /\ hcounts' = <<slow_count_haplotypes(hgenos[1], hgenos[2]),
                  slow_count_haplotypes(hgenos[2], hgenos[1])>>
  /\ hld' = <<EstimateFrame, EstimateFrame>>
  /\ hpc' = "estimate"
  /\ UNCHANGED <<hgenos, hout>>
  /\ UNCHANGED notld

\* the calls that are at `stage`
AtStage(stage) == {o \in {1, 2} : hld[o].stage = stage}

InitialEstimate ==
  /\ hpc = "estimate"
  /\ AtStage("start") # {}
  /\ hld' = [o \in {1, 2} |-> IF o \in AtStage("start")
                              THEN initial_estimate(hld[o], hcounts[o]) ELSE hld[o]]
  /\ UNCHANGED <<hpc, hgenos, hcounts, hout>>
  /\ UNCHANGED notld

InitialFrequencies ==
  /\ hpc = "estimate"
  /\ AtStage("frequencies") # {}
  /\ hld' = [o \in {1, 2} |-> IF o \in AtStage("frequencies")
                              THEN initial_frequencies(hld[o]) ELSE hld[o]]
  /\ UNCHANGED <<hpc, hgenos, hcounts, hout>>
  /\ UNCHANGED notld

\* the two calls sum the same terms of the log-likelihood, so it settles in
\* the same pass for both
ForceAway ==
  /\ hpc = "estimate"
  /\ AtStage("force") # {}
  /\ \E settles \in BOOLEAN :
       hld' = [o \in {1, 2} |-> IF o \in AtStage("force")
                                THEN force_away(hld[o], Forced(hld[o].est), settles)
                                ELSE hld[o]]
  /\ UNCHANGED <<hpc, hgenos, hcounts, hout>>
  /\ UNCHANGED notld

EMStep ==
  /\ hpc = "estimate"
  /\ AtStage("step") # {}
  /\ hld' = [o \in {1, 2} |-> IF o \in AtStage("step")
                              THEN em_step(hld[o], hcounts[o],
                                           Nx1(hld[o], hcounts[o]), Nx2(hld[o], hcounts[o]))
                              ELSE hld[o]]
  /\ UNCHANGED <<hpc, hgenos, hcounts, hout>>
  /\ UNCHANGED notld

ReturnLd ==
  /\ hpc = "estimate"
  /\ AtStage("final") # {}
  /\ AtStage("force") \cup AtStage("step") = {}
  /\ hld' = [o \in {1, 2} |-> IF o \in AtStage("final")
                              THEN ld_ratios(hld[o], Disequilibrium(hld[o]),
                                             Dmax(hld[o], Disequilibrium(hld[o])))
                              ELSE hld[o]]
  /\ UNCHANGED <<hpc, hgenos, hcounts, hout>>
  /\ UNCHANGED notld

\* scan_ldpairs: r2 >= rthreshold and abs(dprime) >= dthreshold, in floats
LdThresholds ==
  {[rthreshold |-> r, dthreshold |-> d] :
     r \in {FloatZero, fdiv(float(8), float(10))}, d \in {FloatZero, fdiv(float(8), float(10))}}
fabs(x) == IF x.m < 0 THEN FloatNeg(x) ELSE x
MeetsLdThresholds(ld, opt) ==
  ~fless(ld[1], opt.rthreshold) /\ ~fless(fabs(ld[2]), opt.dthreshold)

\* scan_ldpairs tests the estimate of each order against the thresholds
YieldPair ==
  /\ hpc = "estimate"
  /\ \A o \in {1, 2} : hld[o].stage = "done"
  /\ hout = << >>
  /\ \E opt \in LdThresholds :
       hout' = [opt |-> opt, pairs |-> {o \in {1, 2} : MeetsLdThresholds(hld[o].ld, opt)}]
  /\ UNCHANGED <<hpc, hgenos, hcounts, hld>>
  /\ UNCHANGED notld

NextLd ==
  \/ CountHaplotypes
  \/ InitialEstimate
  \/ InitialFrequencies
  \/ ForceAway
  \/ EMStep
  \/ ReturnLd
  \/ YieldPair

SpecLd == InitLd /\ [][NextLd]_vars

\* ---- properties ----
ResultLoci(r) == r.tags \cup r.others

\* the key of a candidate bin, as the specification states it
BinKey(bin) == <<bin.disposition, -Cardinality(bin.set), -bin.maf>>

\* a step on which the binner emits a bin
Emitted == Len(results') = Len(results) + 1

\* C1: over a complete run the tags and others of the emitted BinResults
\* partition the loci that entered the binner: no locus is emitted twice (in
\* two bins, or as tag and other of one), and when the stream has ended every
\* locus has been emitted.
C1_Partition ==
  /\ \A i \in 1..Len(results) : results[i].tags \cap results[i].others = {}
  /\ \A i, j \in 1..Len(results) :
       i # j => ResultLoci(results[i]) \cap ResultLoci(results[j]) = {}
  /\ pc = "done" => UNION {ResultLoci(results[i]) : i \in 1..Len(results)} = Loci

C1_Witness ==
  /\ pc = "done"
  /\ Len(results) >= 2
  /\ \E i \in 1..Len(results) : results[i].others # {}

\* C2: every emitted BinResult has at least tags_required tags and the
\* assertion of build_result never fails: the binner never raises.
C2_NeverRaises ==
  /\ pc # "raised"
  /\ \A i \in 1..Len(results) : Cardinality(results[i].tags) >= results[i].tags_required

\* C3: each time a bin is emitted, the bin of the chosen reference has the
\* smallest key among the candidate bins remaining at that moment, for the
\* linear scan and for the priority queue.
C3_SmallestKey ==
  [][Len(popped') = Len(popped) + 1 =>
       LET t == popped'[Len(popped')]
       IN /\ t.ref_lname \in DOMAIN binsets
          /\ t.largest = binsets[t.ref_lname]
          /\ \A l \in DOMAIN binsets : KeyLeq(BinKey(t.largest), BinKey(binsets[l]))]_vars

\* a second bin was chosen by the priority queue after a must-split shrink
\* (the first reference once covered more loci than it was emitted with)
C3_Witness ==
  /\ impl = "fast"
  /\ Len(popped) >= 2
  /\ popped[1].largest.maxcovered > Cardinality(popped[1].largest.set)

\* C4: the maf_sum of every candidate bin is the sum of the MAFs of its
\* current members, in every reachable state.
C4_MafSum ==
  \A l \in DOMAIN binsets : binsets[l].maf = SumMaf(maf, binsets[l].set)

\* C5: the tags of an emitted BinResult are the members of the reference bin
\* B whose own candidate bin, before this emission's withdrawals, is a
\* superset of B and is EXCLUDE only if B is; the others are the rest of B;
\* the reference is a tag.
C5_Tags ==
  [][Emitted =>
       LET r == results'[Len(results')]
           t == popped'[Len(popped')]
           B == t.largest
       IN /\ B = binsets[t.ref_lname]
          /\ r.tags = {m \in B.set :
                         /\ m \in DOMAIN binsets
                         /\ B.set \subseteq binsets[m].set
                         /\ binsets[m].disposition # EXCLUDE \/ B.disposition = EXCLUDE}
          /\ r.others = B.set \ r.tags
          /\ t.ref_lname \in r.tags]_vars

\* a bin that is not EXCLUDE was emitted with a member whose own bin covers
\* it but is EXCLUDE, and which therefore is no tag
C5_Witness ==
  \E i \in 1..Len(results) :
    /\ popped[i].largest.disposition # EXCLUDE
    /\ \E m \in results[i].others :
         /\ popped[i].bins[m].disposition = EXCLUDE
         /\ popped[i].largest.set \subseteq popped[i].bins[m].set

\* C6: every untyped obligate is emitted as the reference (include) of its
\* own obligate-untyped BinResult, and is never a tag or other of a bin whose
\* reference is another locus.
C6_UntypedOwnBin ==
  /\ \A i \in 1..Len(results) : \A u \in includes.untyped \cap ResultLoci(results[i]) :
       /\ popped[i].ref_lname = u
       /\ results[i].include = u
       /\ results[i].disposition = "obligate-untyped"
  /\ pc = "done" =>
       \A u \in includes.untyped : \E i \in 1..Len(results) : popped[i].ref_lname = u

\* two untyped obligates in LD with each other were both emitted
C6_Witness ==
  /\ pc = "done"
  /\ \E u1, u2 \in includes.untyped :
       /\ u1 # u2
       /\ <<u1, u2>> \in DOMAIN lddata \/ <<u2, u1>> \in DOMAIN lddata
       /\ \E i, j \in 1..Len(results) : results[i].include = u1 /\ results[j].include = u2

\* C7: the keys of the successively emitted reference bins, taken at emission
\* time, never decrease.
C7_KeysNonDecreasing ==
  \A i \in 1..(Len(popped) - 1) :
    KeyLeq(BinKey(popped[i].largest), BinKey(popped[i + 1].largest))

\* two bins of one disposition were emitted around a must-split shrink, and
\* bins of two dispositions were emitted
C7_Witness ==
  /\ Len(popped) >= 3
  /\ \E i \in 1..Len(popped) :
       popped[i].largest.maxcovered > Cardinality(popped[i].largest.set)
  /\ \E i, j \in 1..Len(popped) :
       popped[i].largest.disposition # popped[j].largest.disposition

\* the number of loci binned before the i-th bin
RECURSIVE BinnedBefore(_)
BinnedBefore(i) ==
  IF i <= 1 THEN 0
  ELSE BinnedBefore(i - 1) + Cardinality(ResultLoci(results[i - 1]))

\* the disposition the i-th bin had when it was selected
SelectionDisposition(i) ==
  LET d == popped[i].largest.disposition
  IN IF d = INCLUDE_UNTYPED THEN "obligate-untyped"
     ELSE IF d = INCLUDE_TYPED THEN "obligate-typed"
     ELSE IF d = EXCLUDE THEN "obligate-exclude"
     ELSE "maximal-bin"

C8_WitnessLoci ==
  \E i \in 2..Len(results) :
    /\ options.targetloci # 0 /\ options.targetbins = 0
    /\ BinnedBefore(i) = options.targetloci
    /\ results[i].disposition = "maximal-bin"

\* C9: the stream of the binner ends only when no candidate bin remains
\* (and never by an exception).
C9_EndsWhenEmpty ==
  pc \in {"done", "raised"} => (pc = "done" /\ DOMAIN binsets = {})

\* every must-split shrink removes a member from a candidate bin and every
\* emission removes the reference's bin, so a run has finitely many steps
BinnerProgress ==
  [][/\ (pc = "bin" /\ pc' = "bin" /\ Len(popped') = Len(popped)) =>
          \E l \in DOMAIN binsets :
             /\ l \in DOMAIN binsets'
             /\ binsets'[l].set # binsets[l].set
             /\ binsets'[l].set \subseteq binsets[l].set
     /\ Len(popped') = Len(popped) + 1 =>
          popped'[Len(popped')].ref_lname \in (DOMAIN binsets) \ DOMAIN binsets']_vars

\* the index pairs the claim names: i < j within maxdist
InRange(i, j) ==
  i < j /\ sloci[j].location - sloci[i].location <= sopt.maxd

\* the pairs the scan must emit from position (i, j) on, in ascending (i, j)
\* order, given the estimates sld
RECURSIVE ExpectedFrom(_, _)
ExpectedFrom(i, j) ==
  IF i > Len(sloci) THEN << >>
  ELSE IF j > Len(sloci) THEN ExpectedFrom(i + 1, i + 2)
  ELSE IF /\ InRange(i, j)
          /\ <<i, j>> \in DOMAIN sld
          /\ sld[<<i, j>>][1] >= sopt.rthreshold
          /\ (sld[<<i, j>>][2] >= sopt.dthreshold \/ -sld[<<i, j>>][2] >= sopt.dthreshold)
       THEN <<<<sloci[i].name, sloci[j].name, sld[<<i, j>>][1], sld[<<i, j>>][2]>>>>
            \o ExpectedFrom(i, j + 1)
       ELSE ExpectedFrom(i, j + 1)

\* C10: on a list sorted by location, scan_ldpairs visits every pair i < j
\* within maxdist and no other, and emits exactly those that meet both
\* thresholds, in ascending (i, j) order.
C10_ScanExact ==
  /\ \A k \in DOMAIN sld : InRange(k[1], k[2])
  /\ spc = "scandone" =>
       /\ \A i, j \in 1..Len(sloci) : InRange(i, j) => <<i, j>> \in DOMAIN sld
       /\ sout = ExpectedFrom(1, 2)

\* a finished scan that emitted a pair, dropped a pair within maxdist for its
\* D', and broke off before a pair beyond maxdist
C10_Witness ==
  /\ spc = "scandone"
  /\ Len(sout) >= 1
  /\ \E k \in DOMAIN sld : sld[k][1] >= sopt.rthreshold /\ sld[k][2] = 7 /\ sopt.dthreshold = 8
  /\ \E i, j \in 1..Len(sloci) : i < j /\ ~InRange(i, j)

\* the populations in which both loci of the pair processed last are polymorphic
BothPolymorphic ==
  {p \in Pops : /\ mloci[mi][p].n > 0 /\ mloci[mi][p].count > 0
                /\ mloci[mj][p].n > 0 /\ mloci[mj][p].count > 0}

\* the populations in which both loci of the pair have genotypes
BothGenotyped == {p \in Pops : mloci[mi][p].n > 0 /\ mloci[mj][p].n > 0}

MinOver(S, k) == CHOOSE v \in {mcur'[p][k] : p \in S} : \A p \in S : v <= mcur'[p][k]

\* a pair within maxd has just been processed by scan_ldpairs_multi
PairScanned == mpc = "mscan" /\ mi' = mi /\ mj' = mj + 1

\* the pair is emitted iff S is not empty and every population of S meets its
\* thresholds, with the minima over S
EmittedIffAllMeet(S) ==
  LET meets == S # {} /\ \A p \in S : mcur'[p][1] >= ths[p].rth /\ Abs(mcur'[p][2]) >= ths[p].dth
  IN IF meets
     THEN mout' = Append(mout, <<mloci[mi][1].name, mloci[mj][1].name,
                                 MinOver(S, 1), MinOver(S, 2)>>)
     ELSE mout' = mout

\* C11 as stated: under minld a pair within maxdist is emitted iff every
\* population in which both loci are polymorphic meets its r2 and |D'|
\* thresholds (and there is one), with the minimum (r2, D') over those
\* populations.
C11_MinldPolymorphic == [][PairScanned => EmittedIffAllMeet(BothPolymorphic)]_vars

\* C11 amended: under minld a pair within maxdist is emitted iff every
\* population in which both loci have genotypes (passed that population's
\* filters) meets its r2 and |D'| thresholds, and there is one; the emitted
\* (r2, D') is the minimum of the per-population (r2, D') over those populations.
C11_MinldGenotyped == [][PairScanned => EmittedIffAllMeet(BothGenotyped)]_vars

\* a pair has been emitted whose populations differ in r2 and in D', and so
\* carries the minimum of each
C11_Witness ==
  /\ mpc = "mscan"
  /\ Len(mout) > 0
  /\ mcur # << >>
  /\ \E p, q \in Pops : mcur[p][2] < mcur[q][2] /\ mcur[q][2] > 0 /\ mcur[p][2] < 0
  /\ mout[Len(mout)][4] < 0

\* the loci of every population's file, each passed through f
PerPopulation(f(_)) == [p \in Pops |-> f(LociOf(mfiles[p], 1))]

\* C12: merge2 applies the locus filters to each population separately
\* before the populations are merged; merge3 applies no per-population filter
\* and applies the filters only to the merged sample.
C12_FilterOrder ==
  mpc = "merged" =>
    /\ method = "merge2" =>
         mscan = merge_loci(PerPopulation(LAMBDA loci : filter_loci(loci, minmaf)))
    /\ method = "merge3" =>
         mscan = filter_loci(merge_loci(PerPopulation(LAMBDA loci : loci)), minmaf)

\* the intersection of the tag sets of the per-population results res
TagSetIntersection(res) ==
  {l \in Loci : \A p \in DOMAIN res : l \in res[p].tags}

\* C13: in global mode the final tag set of each population's BinResult of
\* an emitted bin is the intersection of the tag sets of the per-population
\* BinResults (over the populations in which the reference has a bin), and
\* that intersection contains the reference locus.
C13_TagIntersection ==
  \A k \in 1..Len(gout) :
    /\ gpopped[k].lname \in TagSetIntersection(gpopped[k].results)
    /\ \A p \in DOMAIN gout[k] :
         gout[k][p].tags = TagSetIntersection(gpopped[k].results)

\* the loci that still have a candidate bin in some population
Candidates == {l \in Loci : PopsWith(gbinsets, l) # {}}

\* C14: with the shared priority queue, after every reference selection and
\* every must-split shrink the queue holds exactly the loci that still have a
\* candidate bin in some population, each under its current priority vector,
\* also the loci outside the selected bins that lost members.
C14_QueueCurrent ==
  (gimpl = "fast" /\ gpc = "bin") =>
    /\ DOMAIN gpq = Candidates
    /\ \A l \in Candidates : gpq[l] = multi_priority(gbinsets, l)

\* the loci whose current priority vector no other candidate beats
MinimalCandidates ==
  {l \in Candidates :
     \A o \in Candidates :
        ~MultiKeyLess(multi_priority(gbinsets, o), multi_priority(gbinsets, l))}

\* C18: on the same loci, binsets, LD table and policy, whenever the minimal
\* key is unique, the linear-scan sequence and the priority-queue sequence
\* select the same reference: here for the multi-population pair, in every
\* state of the priority-queue sequence, against the linear scan taken over
\* every iteration order of the loci.
C18_SameReference ==
  (gimpl = "fast" /\ gpc = "bin" /\ Cardinality(MinimalCandidates) = 1) =>
    {naive_multi_peek(gbinsets, o) : o \in Orders(glnames)}
      = multi_peek("fast", gbinsets, gpq, << >>)

\* the single-population pair of sequences does agree under a unique minimal key
SingleSequencesAgree ==
  (impl = "fast" /\ pc = "bin" /\ DOMAIN binsets # {}
     /\ Cardinality(peek("naive", binsets, pq)) = 1) =>
    peek("naive", binsets, pq) = peek("fast", binsets, pq)

\* the candidate bins whose key (disposition, -size, -maf_sum) no other beats
MinimalBins ==
  {l \in DOMAIN binsets :
     \A o \in DOMAIN binsets : ~KeyLess(BinKey(binsets[o]), BinKey(binsets[l]))}

\* C15: when candidate bins tie on (disposition, size, maf_sum) the bin
\* selected is the one whose reference locus name is smallest, so that the
\* bin sequence is a function of the inputs.
C15_TieByName ==
  [][Len(popped') = Len(popped) + 1 =>
       \A l \in MinimalBins : popped'[Len(popped')].ref_lname <= l]_vars

\* select_tags ranks the bin: tag criteria are supplied, or design scores are
\* supplied and the bin is not an obligate-exclude bin
SelectorRanks ==
  tweights # {} \/ (tscores # << >> /\ tbin.disposition # "obligate-exclude")

\* recommended_tags is the head of the ranked tags with the include forced in
RecommendedAsRanked ==
  LET head == SubSeq(tbin.tags, 1, tbin.tags_required)
  IN /\ tbin.recommended_tags =
          (IF tbin.include # 0 /\ \A i \in 1..Len(head) : head[i] # tbin.include
           THEN <<tbin.include>> \o SubSeq(head, 1, Len(head) - 1)
           ELSE head)
     /\ Len(tbin.recommended_tags) = Min(tbin.tags_required, Len(tbin.tags))
     /\ tbin.include # 0 => \E i \in 1..Len(tbin.recommended_tags) :
                               tbin.recommended_tags[i] = tbin.include

\* C16 as stated: after tag selection on a bin with at least two tags,
\* recommended_tags is the first tags_required ranked tags, the obligate
\* include replacing the last when it is not among them; it has
\* min(tags_required, |tags|) entries and contains the include.
C16_Recommended ==
  (tpc = "selected" /\ Len(tbin.tags) >= 2) => RecommendedAsRanked

\* C16 amended: the same, for a selector that ranks the bin, i.e. when tag
\* criteria are supplied, or design scores are supplied and the bin is not an
\* obligate-exclude bin (otherwise select_tags leaves the bin unchanged).
C16_RecommendedWhenRanked ==
  (tpc = "selected" /\ Len(tbin.tags) >= 2 /\ SelectorRanks) => RecommendedAsRanked

\* a five-locus bin with tags_required = 3 whose obligate include was ranked
\* outside the first three tags and is recommended first
C16_Witness ==
  /\ tpc = "selected"
  /\ SelectorRanks
  /\ Len(tbin.tags) = 5
  /\ tbin.tags_required = 3
  /\ Len(tbin.recommended_tags) = 3
  /\ tbin.include # 0
  /\ tbin.recommended_tags[1] = tbin.include
  /\ \A i \in 1..3 : tbin.tags[i] # tbin.include

\* C17 as stated: a bin with exactly one tag has that tag as its
\* recommended_tags after select_tags, for every configuration of design
\* scores and tag criteria (none included) and every disposition.
C17_SoleTagRecommended ==
  (tpc = "selected" /\ Len(tbin.tags) = 1) => tbin.recommended_tags = tbin.tags

\* C17 amended: a bin with exactly one tag has that tag as its
\* recommended_tags after select_tags when tag criteria are supplied, or
\* design scores are supplied and the bin is not an obligate-exclude bin.
C17_SoleTagWhenRanked ==
  (tpc = "selected" /\ Len(tbin.tags) = 1 /\ SelectorRanks) =>
    tbin.recommended_tags = tbin.tags

\* a singleton bin and a larger bin with a single tag, both with their sole
\* tag recommended: here the larger one
C17_Witness ==
  /\ tpc = "selected"
  /\ SelectorRanks
  /\ Len(tbin.tags) = 1
  /\ tbin.others # {}
  /\ tbin.recommended_tags = tbin.tags

\* C19: a fatal input error raised during an analysis terminates the program
\* with a non-zero exit status and an error message on the diagnostic stream.
C19_FatalNonZero ==
  (lpc = "exited" /\ lraised # "") =>
    /\ \E i \in 1..Len(lstderr) : lstderr[i] = lraised
    /\ lstatus # {} /\ 0 \notin lstatus

\* the part of C19 that holds: the error message reaches the diagnostic stream
ErrorReported ==
  (lpc = "exited" /\ lraised # "") => \E i \in 1..Len(lstderr) : lstderr[i] = lraised

\* the counts of one order with c12 and c21 exchanged
ExchangeLoci(c) == <<c[1], c[3], c[2], c[4], c[5]>>
\* both calls of estimate_ld have returned
BothEstimated == hpc = "estimate" /\ \A o \in {1, 2} : hld[o].stage = "done"

\* the part of C20 about count_haplotypes: counting (B, A) yields the counts
\* of (A, B) with c12 and c21 exchanged and c11, c22, dh unchanged
CountsSymmetric ==
  hpc = "estimate" => hcounts[2] = ExchangeLoci(hcounts[1])

\* C20: LD estimation is symmetric in its two loci: the haplotype counts of
\* (B, A) are those of (A, B) with c12 and c21 exchanged, and estimate_ld
\* returns the same (r2, D') for both orders.
C20_LdSymmetric ==
  BothEstimated =>
    /\ hcounts[2] = ExchangeLoci(hcounts[1])
    /\ hld[2].ld = hld[1].ld

\* the asymmetry does not need the EM loop: it occurs without double
\* heterozygotes, where every pass sets the estimates to the counts over n
NoDoubleHetSymmetric ==
  (BothEstimated /\ hcounts[1][5] = 0) => hld[2].ld = hld[1].ld

\* the samples genotyped at both loci, and the alleles a locus shows in them
JointlyTyped ==
  {i \in 1..NumGenos : hgenos[1][i] # MissingGenotype /\ hgenos[2][i] # MissingGenotype}
ObservedAlleles(locus) ==
  (UNION {{hgenos[locus][i][1], hgenos[locus][i][2]} : i \in JointlyTyped}) \ {" "}
MonomorphicPair == \E locus \in {1, 2} : Cardinality(ObservedAlleles(locus)) < 2

C21_NoSample == (hout # << >> /\ JointlyTyped = {}) => hld[1].ld = <<FloatZero, FloatZero>>

\* C21, the binner's side: a locus that was in no LD pair (its candidate bin
\* never held another locus) is emitted as a singleton bin
UnpairedSingleton ==
  \A i \in 1..Len(results) :
    \A l \in DOMAIN popped[i].bins :
      popped[i].bins[l].maxcovered = 1 => results[i].tags \cup results[i].others = {l}

\* the largest size a candidate bin held up to the next state, given its
\* maxcovered now (0 for a bin that does not exist yet)
LargestHeld(l) ==
  Max(IF l \in DOMAIN binsets THEN binsets[l].maxcovered ELSE 0,
      Cardinality(binsets'[l].set))

\* C22: for every candidate bin at every point of its life maxcovered is at
\* least the number of its members and never decreases: it is the largest
\* size the bin ever held.  Every emitted BinResult has maxcovered at least
\* its number of loci, and a BinResult of one locus reports maxcovered > 1
\* exactly when a candidate tag of it once covered more loci.
C22_MaxCovered ==
  [][/\ \A l \in DOMAIN binsets' :
          /\ binsets'[l].maxcovered >= Cardinality(binsets'[l].set)
          /\ binsets'[l].maxcovered = LargestHeld(l)
     /\ \A i \in 1..Len(results') :
          /\ results'[i].maxcovered >= Cardinality(results'[i].tags \cup results'[i].others)
          /\ Cardinality(results'[i].tags \cup results'[i].others) = 1 =>
               (results'[i].maxcovered > 1 <=>
                  \E t \in results'[i].tags : popped'[i].bins[t].maxcovered > 1)]_vars

\* a bin of one locus has been emitted whose candidate bin once held more
C22_Witness ==
  \E i \in 1..Len(results) :
    /\ Cardinality(results[i].tags \cup results[i].others) = 1
    /\ results[i].maxcovered > 1

\* the tuple (-covered, r2, lname) that split_bin sorts on, for the member
\* lname of the bin of ref_lname
ShrinkKey(ref_lname, lname) ==
  <<-Cardinality(binsets[lname].set),
    IF <<ref_lname, lname>> \in DOMAIN lddata
    THEN lddata[<<ref_lname, lname>>] ELSE lddata[<<lname, ref_lname>>],
    lname>>
\* k1 <= k2 as tuples
ShrinkKeyLeq(k1, k2) ==
  \/ k1[1] < k2[1]
  \/ k1[1] = k2[1] /\ k1[2] < k2[2]
  \/ k1[1] = k2[1] /\ k1[2] = k2[2] /\ k1[3] <= k2[3]
\* a must-split shrink step: pop has split and not yet returned
ShrinkStep == pc = "bin" /\ pc' = "bin" /\ popped' = popped /\ binsets' # binsets
\* the step removes lname from the bin of ref_lname and ref_lname from the
\* bin of lname, and nothing else changes
Shrinks(ref_lname, lname) ==
  /\ DOMAIN binsets' = DOMAIN binsets
  /\ binsets'[ref_lname] = [binsets[ref_lname] EXCEPT !.set = @ \ {lname}, !.maf = @ - maf[lname]]
  /\ binsets'[lname] = [binsets[lname] EXCEPT !.set = @ \ {ref_lname}, !.maf = @ - maf[ref_lname]]
  /\ \A l \in DOMAIN binsets \ {ref_lname, lname} : binsets'[l] = binsets[l]
  /\ impl = "fast" =>
       /\ DOMAIN pq' = DOMAIN pq
       /\ pq'[ref_lname] = priority(binsets'[ref_lname])
       /\ pq'[lname] = priority(binsets'[lname])
       /\ \A l \in DOMAIN pq \ {ref_lname, lname} : pq'[l] = pq[l]
\* the references whose bin the step may have shrunk
ShrinkReferences ==
  {l \in peek(impl, binsets, pq) : must_split_bin(binsets[l], binsets, options)}

\* C23: each must-split shrink step removes exactly one non-reference member
\* from the reference's candidate bin, the member with the smallest tuple
\* (-|member's own candidate bin|, r2 between reference and member, name), and
\* removes the reference from that member's bin; both bins' maf_sum and queue
\* keys are updated and every other candidate bin is unchanged.
C23_ShrinkStep ==
  [][ShrinkStep =>
       \E ref_lname \in ShrinkReferences :
         \E lname \in binsets[ref_lname].set \ {ref_lname} :
           /\ \A other \in binsets[ref_lname].set \ {ref_lname} :
                ShrinkKeyLeq(ShrinkKey(ref_lname, lname), ShrinkKey(ref_lname, other))
           /\ Shrinks(ref_lname, lname)]_vars

\* the pairs of the table whose two loci are still candidates but no longer
\* in each other's bins: the pairs a shrink step has taken apart
SplitPairs ==
  {k \in DOMAIN lddata :
     /\ k[1] \in DOMAIN binsets /\ k[2] \in DOMAIN binsets
     /\ k[2] \notin binsets[k[1]].set /\ k[1] \notin binsets[k[2]].set}

\* a shrink step has taken a member out of a bin that had two other members
C23_Witness ==
  /\ pc = "bin"
  /\ \E k \in SplitPairs :
       \E l \in {k[1], k[2]} : Cardinality(binsets[l].set) >= 2

\* the member removed by the step, read off the two states
Removed(ref_lname) == CHOOSE lname \in binsets[ref_lname].set : lname \notin binsets'[ref_lname].set
\* the reference of the step: a selected bin that lost a member
Shrunk ==
  {l \in ShrinkReferences : binsets'[l].set # binsets[l].set}

\* C24: the member removed by a must-split shrink step is a least-covered
\* member: no other non-reference member of the reference's bin has a
\* strictly smaller own candidate bin; among the least-covered members it is
\* the one of smallest r2 with the reference, then the smallest name.
C24_LeastCovered ==
  [][ShrinkStep =>
       \E ref_lname \in Shrunk :
         \A other \in binsets[ref_lname].set \ {ref_lname} :
           Cardinality(binsets[other].set) >= Cardinality(binsets[Removed(ref_lname)].set)]_vars

\* C24 as the code has it: the member removed is a most-covered member (no
\* other non-reference member has a strictly larger own candidate bin); among
\* the most-covered members it is the one of smallest r2 with the reference,
\* then the smallest name.
C24_MostCovered ==
  [][ShrinkStep =>
       \E ref_lname \in Shrunk :
         LET lname == Removed(ref_lname)
             size(l) == Cardinality(binsets[l].set)
             r2(l) == ShrinkKey(ref_lname, l)[2]
         IN \A other \in binsets[ref_lname].set \ {ref_lname} :
              /\ size(other) <= size(lname)
              /\ size(other) = size(lname) => r2(lname) <= r2(other)
              /\ (size(other) = size(lname) /\ r2(other) = r2(lname)) => lname <= other]_vars

\* before any emission one pair has been taken apart, and the member removed
\* had a larger candidate bin than a member that stayed
C24_Witness ==
  /\ pc = "bin" /\ popped = << >>
  /\ Cardinality(SplitPairs) = 1
  /\ \E k \in SplitPairs :
       \E ref_lname \in {k[1], k[2]} :
         \E lname \in {k[1], k[2]} \ {ref_lname} :
           \E other \in binsets[ref_lname].set \ {ref_lname} :
             Cardinality(binsets[lname].set) + 1 > Cardinality(binsets[other].set)

\* the number of populations in which lname has a bin and the summed length
\* of these bins, before priority doubles them
Undoubled(bss, lname) ==
  <<Cardinality(PopsWith(bss, lname)),
    SumOver([p \in PopsWith(bss, lname) |-> Cardinality(bss[p][lname].set)], PopsWith(bss, lname))>>

\* the smallest bin of lname over the populations is a singleton
SmallestIsSingleton(bss, lname) ==
  \E p \in PopsWith(bss, lname) : Cardinality(bss[p][lname].set) = 1

\* the loci still to be selected that have the minimum disposition and the
\* undoubled (populations_covered, total_size) of lname and no singleton bin
SameUndoubled(bss, lname) ==
  {o \in glnames :
     /\ PopsWith(bss, o) # {}
     /\ ~SmallestIsSingleton(bss, o)
     /\ multi_priority(bss, o)[1] = multi_priority(bss, lname)[1]
     /\ Undoubled(bss, o) = Undoubled(bss, lname)}

\* C25: a locus whose smallest bin is a singleton is selected after every
\* locus of the same minimum disposition and the same undoubled
\* (populations_covered, total_size) none of whose bins is a singleton: while
\* such a locus remains, the queue does not select the singleton locus.
C25_SingletonDrops ==
  (gpc = "bin" /\ gimpl = "fast" /\ AnyBinsets) =>
    \A ref_lname \in multi_peek(gimpl, gbinsets, gpq, gorder) :
      SmallestIsSingleton(gbinsets, ref_lname) => SameUndoubled(gbinsets, ref_lname) = {}

\* what the key does: the doubled locus is ahead of every such locus, so
\* none of them is selected while it remains
SingletonRises ==
  (gpc = "bin" /\ gimpl = "fast" /\ AnyBinsets) =>
    \A lname \in DOMAIN gpq :
      (SmallestIsSingleton(gbinsets, lname) /\ SameUndoubled(gbinsets, lname) # {})
        => SameUndoubled(gbinsets, lname) \cap multi_peek(gimpl, gbinsets, gpq, gorder) = {}

\* the selected reference has a bin that must split in some population
GlobalMustSplit ==
  /\ gpc = "bin"
  /\ AnyBinsets
  /\ \E ref_lname \in multi_peek(gimpl, gbinsets, gpq, gorder) \ {0} :
       MustSplitPops(gbinsets, ref_lname, gopt) # {}

\* C26: in global mode, when the bin of the selected reference must split in
\* some population, the step completes without error: it removes one member
\* from the reference's bin in that population and the reference from that
\* member's bin, and the sequence goes on selecting.
C26_SplitCompletes ==
  [][GlobalMustSplit =>
       /\ gpc' = "bin"
       /\ \E p \in Pops : \E ref_lname \in DOMAIN gbinsets[p] :
            \E lname \in gbinsets[p][ref_lname].set \ {ref_lname} :
              /\ gbinsets'[p][ref_lname].set = gbinsets[p][ref_lname].set \ {lname}
              /\ gbinsets'[p][lname].set = gbinsets[p][lname].set \ {ref_lname}]_vars

\* the loci of the bins emitted so far
EmittedLoci == UNION {popped[i].largest.set : i \in 1..Len(popped)}

\* the bin emitted by the step
EmittedBin == popped'[Len(popped')].largest.set

\* C27: after the binner emits bin B, every member of B is withdrawn from
\* every remaining candidate bin, whose maf_sum is lowered by the MAFs of the
\* members withdrawn, and the members' own bins no longer exist; candidate
\* bins without a member of B are unchanged; between emissions no remaining
\* candidate bin contains an emitted locus.
C27_Withdrawn ==
  [][/\ Emitted =>
          /\ DOMAIN binsets' = (DOMAIN binsets) \ EmittedBin
          /\ \A l \in DOMAIN binsets' :
               /\ binsets'[l].set = binsets[l].set \ EmittedBin
               /\ binsets'[l].maf = binsets[l].maf - SumOver(maf, binsets[l].set \cap EmittedBin)
               /\ binsets[l].set \cap EmittedBin = {} => binsets'[l] = binsets[l]
     /\ pc' = "bin" =>
          \A l \in DOMAIN binsets' : binsets'[l].set \cap EmittedLoci' = {}]_vars

\* a bin has been emitted one of whose members had a locus outside the bin
\* in its own candidate bin, and that locus is still a candidate
C27_Witness ==
  /\ pc = "bin"
  /\ \E i \in 1..Len(popped) :
       \E lname \in DOMAIN popped[i].bins :
         \E lname2 \in popped[i].bins[lname].set \ popped[i].largest.set :
           lname2 \in DOMAIN binsets

\* the loci of population p in the results of one selection
PopResultLoci(res, p) ==
  IF p \in DOMAIN res THEN res[p].tags \cup res[p].others ELSE {}

\* a selection has been yielded by binner_vector
GlobalEmitted == Len(gpopped') = Len(gpopped) + 1

\* every selection yields, for each population, exactly the loci it removes
\* from that population's binsets
YieldsWithdrawn ==
  [][GlobalEmitted =>
       \A p \in Pops :
         PopResultLoci(gpopped'[Len(gpopped')].results, p)
           = (DOMAIN gbinsets[p]) \ (DOMAIN gbinsets'[p])]_vars

\* no locus is in two BinResults of one population
GlobalDisjoint ==
  \A p \in Pops : \A i, j \in 1..Len(gpopped) :
    i # j => PopResultLoci(gpopped[i].results, p) \cap PopResultLoci(gpopped[j].results, p) = {}

\* C28: in global mode the BinResults of each population partition that
\* population's loci: no locus is in two BinResults of a population, every
\* selection yields the loci it removes from the binsets, and the stream
\* ends exactly when the binsets of every population are empty.
C28_GlobalPartition ==
  [][/\ GlobalEmitted =>
          \A p \in Pops :
            /\ PopResultLoci(gpopped'[Len(gpopped')].results, p)
                 = (DOMAIN gbinsets[p]) \ (DOMAIN gbinsets'[p])
            /\ \A i \in 1..Len(gpopped) :
                 PopResultLoci(gpopped[i].results, p)
                   \cap PopResultLoci(gpopped'[Len(gpopped')].results, p) = {}
     /\ (gpc = "bin" /\ gpc' # "bin") => ~AnyBinsets
     /\ (gpc = "bin" /\ ~AnyBinsets) => gpc' = "collect"]_vars

\* the stream ends with an exception only through the selection of the
\* linear scan or a bin that must split
EndsEmptyOrRaises ==
  [][(gpc = "bin" /\ gpc' # "bin" /\ AnyBinsets) =>
       \/ 0 \in multi_peek(gimpl, gbinsets, gpq, gorder)
       \/ GlobalMustSplit]_vars

ReportedPairs(r) == {<<e[1], e[2]>> : e \in {x \in r.ld : x[1] # x[2]}}

\* the entries of the table between two loci of the set B
IntraPairs(ld, B) == {k \in DOMAIN ld : k[1] \in B /\ k[2] \in B}

\* C30: each pair of the LD table is reported in the ld list of at most one
\* BinResult, exactly when both of its loci are emitted in the same bin, and
\* is removed from the table when it is reported; when the stream of the
\* binner ends the table holds exactly the inter-bin pairs.
C30_PairsConsumed ==
  [][/\ Emitted =>
          /\ ReportedPairs(results'[Len(results')]) = IntraPairs(lddata, EmittedBin)
          /\ DOMAIN lddata' = (DOMAIN lddata) \ IntraPairs(lddata, EmittedBin)
          /\ \A i \in 1..Len(results) :
               ReportedPairs(results[i]) \cap ReportedPairs(results'[Len(results')]) = {}
     /\ pc' = "done" =>
          \A k \in DOMAIN lddata' :
            \A i \in 1..Len(results') : ~({k[1], k[2]} \subseteq ResultLoci(results'[i]))]_vars

====
